---- MODULE Spec2Model ----
(***************************************************************************)
(* A model of simple-module-logger (src/src/logger.ts, common.ts,          *)
(* duration.ts): the Logger facade, its text and JSONL emission paths,     *)
(* the error inspector (display message, cause chain, serialization), the  *)
(* cycle guard of the JSON replacer, and the Timer decorator.              *)
(*                                                                         *)
(* Conventions.                                                            *)
(*  - A JavaScript value is a record [t, id, txt]: t is its type tag, id    *)
(*    its identity (containers and errors live in the heap under that id)  *)
(*    and txt the text of a string, as a sequence of tokens.               *)
(*  - A multi-line string (a stack) is the sequence of its lines; <<>> is   *)
(*    undefined and <<"">> the empty string, the two falsy cases.          *)
(*  - ANSI colour escapes are left out: colorize() is the identity when    *)
(*    useColor is false, and every claim is stated modulo colour.          *)
(*  - A JSON line is modelled by its parse tree [key, tok, kids].          *)
(***************************************************************************)
EXTENDS Integers, Sequences, FiniteSets, TLC

VARIABLES
    heap,     \* the value graph the caller built: containers and errors
    logger,   \* the Logger instance (or the fact that none exists)
    timers,   \* the Timer instances created so far
    now,      \* performance.now(), in clock ticks
    out,      \* every stream write and process.exit, in program order
    calls,    \* how many log calls were made
    last      \* what the most recent operation was and how it ended

vars == <<heap, logger, timers, now, out, calls, last>>

----------------------------------------------------------------------------
(* Bounds of the model.                                                    *)

MaxSlots  == 3   \* slots of all containers of the heap together
MaxArgs   == 2   \* extra arguments per log call
MaxClock  == 2   \* clock ticks per behaviour
TicksPerMs == 2  \* resolution of performance.now(): clock ticks per millisecond
MaxTimers == 2   \* timers of the timer specification
MaxCalls  == 2   \* log calls of the timer and of the call-sequence specification

----------------------------------------------------------------------------
(* common.ts                                                               *)

LOG_LEVELS == <<"debug", "info", "warn", "error", "fatal">>

Levels == {LOG_LEVELS[i] : i \in DOMAIN LOG_LEVELS}

\* LOG_LEVELS.indexOf(level): -1 when absent
IndexOf(level) ==
    IF \E i \in DOMAIN LOG_LEVELS : LOG_LEVELS[i] = level
    THEN (CHOOSE i \in DOMAIN LOG_LEVELS : LOG_LEVELS[i] = level) - 1
    ELSE -1

\* LOG_LEVELS.includes(level)
IsLogLevel(level) == \E i \in DOMAIN LOG_LEVELS : LOG_LEVELS[i] = level

----------------------------------------------------------------------------
(* logger.ts, module constants                                             *)

STDOUT_LEVELS == <<"debug", "info">>

OUTPUT_FORMATS == <<"text", "jsonl">>

IsStdoutLevel(level) == \E i \in DOMAIN STDOUT_LEVELS : STDOUT_LEVELS[i] = level

IsOutputFormat(f) == \E i \in DOMAIN OUTPUT_FORMATS : OUTPUT_FORMATS[i] = f

----------------------------------------------------------------------------
(* Values and the heap.                                                    *)

Objs == {"o1", "o2"}          \* identities of containers (objects, arrays)
Errs == {"e1", "e2", "e3"}    \* identities of Error instances

StrVal(toks) == [t |-> "str", id |-> "", txt |-> toks]
ObjVal(o)    == [t |-> "obj", id |-> o, txt |-> <<>>]
ErrVal(e)    == [t |-> "err", id |-> e, txt |-> <<>>]
Prim(t)      == [t |-> t, id |-> "", txt |-> <<>>]

\* what error.cause can hold: nothing, a non-Error value, or an Error
CauseVals == {"none", "nonerr"} \cup Errs

\* error.name, error.message and error.stack of the three errors
ErrName == [e \in Errs |->
    CASE e = "e1" -> "Error" [] e = "e2" -> "TypeError" [] OTHER -> ""]

ErrMessage == [e \in Errs |->
    CASE e = "e1" -> "boom" [] e = "e2" -> "" [] OTHER -> ""]

ErrStack == [e \in Errs |->
    CASE e = "e1" -> <<"Error: boom", "    at f", "">>
      [] e = "e2" -> <<"TypeError", "  ", "    at g">>
      [] OTHER -> <<>>]

\* a string is falsy when undefined or empty
Falsy(lines) == lines = <<>> \/ lines = <<"">>

\* line.trim() is empty
IsBlank(line) == line \in {"", " ", "  "}

----------------------------------------------------------------------------
(* Error inspector                                                         *)

\* the mutant: an empty message is returned as it is, without the fallbacks
formatErrorMessageNoFallback(e) ==
    IF heap.emsg[e] # "undefined" THEN heap.emsg[e]
    ELSE IF heap.ename[e] # "" THEN heap.ename[e] ELSE "Error"

\* formatErrorMessage(error)
formatErrorMessage(e) ==
    IF heap.emsg[e] # "undefined" /\ heap.emsg[e] # ""
    THEN heap.emsg[e]
    ELSE IF heap.ename[e] # "" THEN heap.ename[e] ELSE "Error"

RECURSIVE CausesLoop(_, _, _)
\* the while loop of getErrorCauses
CausesLoop(current, seen, causes) ==
    IF current \notin Errs THEN causes               \* !(current instanceof Error)
    ELSE IF current \in seen THEN causes             \* circular reference: break
    ELSE CausesLoop(heap.cause[current], seen \cup {current}, Append(causes, current))

\* the mutant: the root error is not put into `seen`
getErrorCausesNoRoot(e) == CausesLoop(heap.cause[e], {}, <<>>)

\* getErrorCauses(error)
getErrorCauses(e) == CausesLoop(heap.cause[e], {e}, <<>>)

----------------------------------------------------------------------------
(* JSON record serializer                                                  *)

\* a node of the structure handed to JSON.stringify: a user value, or a fresh
\* container (the record, its arrays, a serialized error) with its children
Leaf(key, v)        == [key |-> key, t |-> v.t, id |-> v.id, txt |-> v.txt, kids |-> <<>>]
StrNode(key, toks)  == [key |-> key, t |-> "str", id |-> "", txt |-> toks, kids |-> <<>>]
PrimNode(key, t)    == [key |-> key, t |-> t, id |-> "", txt |-> <<>>, kids |-> <<>>]
Fresh(key, what, kids) == [key |-> key, t |-> "fresh", id |-> what, txt |-> <<>>, kids |-> kids]

IsContainer(n) == n.t \in {"obj", "fresh"}

\* error.name || "Error"
NameOrError(e) == IF heap.ename[e] # "" THEN heap.ename[e] ELSE "Error"

\* one element of details.causes: {name, message, stack: cause.stack}
CauseEntry(key, c) ==
    Fresh(key, "object",
        << StrNode("name", <<NameOrError(c)>>),
           StrNode("message", <<formatErrorMessage(c)>>),
           IF heap.estack[c] = <<>> THEN PrimNode("stack", "undef")
                                    ELSE StrNode("stack", heap.estack[c]) >>)

\* the mutant: the cause chain is collected without remembering the root
serializeErrorRootInCauses(key, e) ==
    LET causes == getErrorCausesNoRoot(e) IN
    Fresh(key, "object",
        << StrNode("name", <<NameOrError(e)>>),
           StrNode("message", <<formatErrorMessage(e)>>) >>
        \o (IF Falsy(heap.estack[e]) THEN <<>> ELSE <<StrNode("stack", heap.estack[e])>>)
        \o (IF Len(causes) > 0
            THEN <<Fresh("causes", "array",
                     [i \in 1..Len(causes) |-> CauseEntry(ToString(i - 1), causes[i])])>>
            ELSE <<>>))

\* Logger.serializeError(error), stored under `key`
serializeError(key, e) ==
    LET causes == getErrorCauses(e) IN
    Fresh(key, "object",
        << StrNode("name", <<NameOrError(e)>>),
           StrNode("message", <<formatErrorMessage(e)>>) >>
        \o (IF Falsy(heap.estack[e]) THEN <<>> ELSE <<StrNode("stack", heap.estack[e])>>)
        \o (IF Len(causes) > 0
            THEN <<Fresh("causes", "array",
                     [i \in 1..Len(causes) |-> CauseEntry(ToString(i - 1), causes[i])])>>
            ELSE <<>>))

\* the own enumerable properties of a container, in enumeration order
KidsOf(n) ==
    IF n.t = "obj"
    THEN [i \in 1..Len(heap.kids[n.id]) |-> Leaf(ToString(i - 1), heap.kids[n.id][i])]
    ELSE n.kids

\* the identity of the object at a position: a user container is identified by
\* its id wherever it occurs, a fresh object by the one place it was created at
Ident(n, path) == IF n.t = "obj" THEN <<n.id>> ELSE path

Includes(seq, x) == \E i \in DOMAIN seq : seq[i] = x

\* the mutant: the pop loop is left out (a visited set instead of a stack)
PopToNever(ancestors, this) == ancestors

\* the mutant: the loop pops one entry at most
PopToOnce(ancestors, this) ==
    IF Len(ancestors) > 0 /\ ancestors[Len(ancestors)] # this
    THEN SubSeq(ancestors, 1, Len(ancestors) - 1)
    ELSE ancestors

RECURSIVE PopTo(_, _)
\* while (ancestors.length > 0 && ancestors[last] !== this && this !== undefined) pop
PopTo(ancestors, this) ==
    IF Len(ancestors) > 0 /\ ancestors[Len(ancestors)] # this
    THEN PopTo(SubSeq(ancestors, 1, Len(ancestors) - 1), this)
    ELSE ancestors

Circular == <<"[Circular]">>

\* the replacer of stringifyJsonRecord, called with this = holder on the value n
\* at `path`; st is the closure state: the ancestors list (and, for the
\* invariants, a log of the object-branch invocations)
Replacer(n, path, this, stack, st) ==
    CASE n.t = "err" ->
            [val |-> serializeError(n.key, n.id), st |-> st]
      [] n.t = "bigint" ->
            [val |-> StrNode(n.key, <<"bigint.toString()">>), st |-> st]
      [] n.t \in {"func", "symbol"} ->
            [val |-> StrNode(n.key, <<"inspect", n.t>>), st |-> st]
      [] n.t = "undef" ->
            [val |-> PrimNode(n.key, "null"), st |-> st]
      [] IsContainer(n) ->
            LET popped == PopTo(st.anc, this)
                entry  == [anc |-> popped, chain |-> stack, value |-> Ident(n, path)]
            IN  IF Includes(popped, Ident(n, path))
                THEN [val |-> StrNode(n.key, Circular),
                      st  |-> [anc |-> popped, inv |-> Append(st.inv, entry)]]
                ELSE [val |-> n,
                      st  |-> [anc |-> Append(popped, Ident(n, path)),
                               inv |-> Append(st.inv, entry)]]
      [] OTHER -> [val |-> n, st |-> st]

\* the parse tree of what JSON.stringify writes for a value that is no container
ScalarTree(n) ==
    CASE n.t = "str"  -> [key |-> n.key, tok |-> <<"str">> \o n.txt, kids |-> <<>>]
      [] n.t = "num"  -> [key |-> n.key, tok |-> <<"num">> \o n.txt, kids |-> <<>>]
      [] n.t = "bool" -> [key |-> n.key, tok |-> <<"bool">>, kids |-> <<>>]
      [] OTHER        -> [key |-> n.key, tok |-> <<"null">>, kids |-> <<>>]  \* null, NaN, Infinity

NoTree == [key |-> "", tok |-> <<>>, kids |-> <<>>]

RECURSIVE SerializeJSONProperty(_, _, _, _, _)
RECURSIVE SerializeKids(_, _, _, _, _, _, _)

\* JSON.stringify's SerializeJSONProperty: the replacer, then the built-in
\* encoding, whose own cycle check throws a TypeError
SerializeJSONProperty(n, path, holder, stack, st) ==
    LET rp == Replacer(n, path, holder, stack, st)
        v  == rp.val
    IN  IF IsContainer(v)
        THEN IF Includes(stack, Ident(v, path))
             THEN [thrown |-> TRUE, tree |-> NoTree, st |-> rp.st]
             ELSE LET r == SerializeKids(KidsOf(v), 1, path, Ident(v, path),
                                         Append(stack, Ident(v, path)), rp.st, <<>>)
                  IN  [thrown |-> r.thrown,
                       tree   |-> [key |-> n.key, tok |-> <<"{">>, kids |-> r.tree.kids],
                       st     |-> r.st]
        ELSE IF v.t = "bigint"
        THEN [thrown |-> TRUE, tree |-> NoTree, st |-> rp.st]
        ELSE [thrown |-> FALSE, tree |-> ScalarTree(v), st |-> rp.st]

\* the properties of one container, in order, each with holder = the container
SerializeKids(kids, i, path, holder, stack, st, acc) ==
    IF i > Len(kids)
    THEN [thrown |-> FALSE, tree |-> [key |-> "", tok |-> <<>>, kids |-> acc], st |-> st]
    ELSE LET r == SerializeJSONProperty(kids[i], Append(path, kids[i].key),
                                         holder, stack, st)
         IN  IF r.thrown
             THEN [thrown |-> TRUE, tree |-> NoTree, st |-> r.st]
             ELSE SerializeKids(kids, i + 1, path, holder, stack, r.st,
                                Append(acc, r.tree))

\* Logger.stringifyJsonRecord(record): JSON.stringify(record, replacer), which
\* starts from the wrapper object {"": record}
stringifyJsonRecord(record) ==
    SerializeJSONProperty(record, <<"$">>, <<"$wrapper">>, <<>>,
                          [anc |-> <<>>, inv |-> <<>>])

----------------------------------------------------------------------------
(* Line emitter                                                            *)

\* one entry of `out`: a write of one line (message + "\n") to a stream, or
\* process.exit(1).  A text line is prefix \o text; level and module are the
\* level and the module label the prefix was built from.
Ev(call, kind, stream, level, module, prefix, text, tree) ==
    [call |-> call, kind |-> kind, stream |-> stream, level |-> level,
     module |-> module, prefix |-> prefix, text |-> text, tree |-> tree]

\* `[${level.toUpperCase()}]`.padEnd(7)
LevelTag(level) ==
    CASE level = "debug" -> "[DEBUG]" [] level = "info" -> "[INFO] "
      [] level = "warn" -> "[WARN] " [] level = "error" -> "[ERROR]"
      [] level = "fatal" -> "[FATAL]"

\* the mutant: the brackets of the module tag are written for an empty label too
buildPrefixModuleAlways(lg, level) ==
    <<"toISOString()", "  ", LevelTag(level), "  ">> \o <<"[", lg.module, "]", " ">>

\* Logger.buildPrefix(level): timestamp, two spaces, the padded level tag, two
\* spaces and, when the module label is non-empty, "[module] "
buildPrefix(lg, level) ==
    <<"toISOString()", "  ", LevelTag(level), "  ">>
    \o (IF lg.module # "" THEN <<"[", lg.module, "]", " ">> ELSE <<>>)

\* the mutant: warn is routed like debug and info
StreamOfWarnStdout(lg, level) ==
    LET useUnifiedJsonStream == lg.outputFormat = "jsonl" /\ ~lg.jsonlSplitStreams
    IN  IF useUnifiedJsonStream THEN lg.stdout
        ELSE IF IsStdoutLevel(level) \/ level = "warn" THEN lg.stdout ELSE lg.stderr

\* the mutant: JSON lines follow the split routing whatever the flag says
StreamOfAlwaysSplit(lg, level) ==
    IF IsStdoutLevel(level) THEN lg.stdout ELSE lg.stderr

\* the stream Logger.writeLine picks
StreamOf(lg, level) ==
    LET useUnifiedJsonStream == lg.outputFormat = "jsonl" /\ ~lg.jsonlSplitStreams
    IN  IF useUnifiedJsonStream THEN lg.stdout
        ELSE IF IsStdoutLevel(level) THEN lg.stdout ELSE lg.stderr

\* Logger.writeLine(level, prefix + text) in text mode; buildPrefix(level) puts
\* the level tag and, when the module label is non-empty, the module tag
writeLine(lg, call, kind, level, text) ==
    Ev(call, kind, StreamOf(lg, level), level, lg.module, buildPrefix(lg, level),
       text, NoTree)

\* Logger.writeLine(level, stringified record) in JSON mode
writeJson(lg, call, level, tree) ==
    Ev(call, "json", StreamOf(lg, level), level, "", <<>>, <<>>, tree)

ExitEv(call, level) == Ev(call, "exit", "process", level, "", <<>>, <<>>, NoTree)

----------------------------------------------------------------------------
(* Value formatter                                                         *)

\* inspect(value, {depth: 10})
Inspect(v) == <<"inspect", v.t, v.id>>

\* Logger.formatValue(value)
formatValue(v) ==
    IF v.t = "str" THEN v.txt
    ELSE IF v.t = "err" THEN <<formatErrorMessage(v.id)>>
    ELSE Inspect(v)

RECURSIVE JoinArgs(_, _)
JoinArgs(args, i) ==
    IF i > Len(args) THEN <<>>
    ELSE <<" ">> \o formatValue(args[i]) \o JoinArgs(args, i + 1)

\* Logger.formatArgs(args): "" or " " + the formatted args joined by " "
formatArgs(args) == IF Len(args) = 0 THEN <<>> ELSE JoinArgs(args, 1)

\* captureNativeStack(): the stack of `new Error()` without its first line
captureNativeStack(raw) ==
    IF Len(raw) <= 1 THEN <<"">> ELSE Tail(raw)

\* the mutant: the message is not looked at
ErrorsAmongArgs(message, args) ==
    SelectSeq(args, LAMBDA v : v.t = "err")

\* [message, ...args].filter(v => v instanceof Error)
ErrorsAmong(message, args) ==
    SelectSeq(<<message>> \o args, LAMBDA v : v.t = "err")

----------------------------------------------------------------------------
(* Text path                                                               *)

\* Logger.logCauseChain(level, error)
logCauseChain(lg, call, level, e) ==
    LET causes == getErrorCauses(e) IN
    [i \in 1..Len(causes) |->
        writeLine(lg, call, "cause", level,
                  <<"  Caused by: ", formatErrorMessage(causes[i])>>)]

\* the mutant: the stack lines are queued and written with the next call
logStackDeferred(lg, call, kind, level, stack, indent) ==
    LET lines == SelectSeq(stack, LAMBDA line : ~IsBlank(line)) IN
    [i \in 1..Len(lines) |-> writeLine(lg, call + 1, kind, level, <<indent, lines[i]>>)]

\* Logger.logStack(level, stack, indent)
logStack(lg, call, kind, level, stack, indent) ==
    LET lines == SelectSeq(stack, LAMBDA line : ~IsBlank(line)) IN
    [i \in 1..Len(lines) |-> writeLine(lg, call, kind, level, <<indent, lines[i]>>)]

RECURSIVE ErrorExtrasStackFirst(_, _, _, _, _)
\* the mutant: the stack of an error is written before its cause chain
ErrorExtrasStackFirst(lg, call, level, errors, i) ==
    IF i > Len(errors) THEN <<>>
    ELSE (IF ~Falsy(heap.estack[errors[i].id])
          THEN logStack(lg, call, "stack", level, heap.estack[errors[i].id], "  ")
          ELSE <<>>)
         \o logCauseChain(lg, call, level, errors[i].id)
         \o ErrorExtrasStackFirst(lg, call, level, errors, i + 1)

RECURSIVE ErrorExtras(_, _, _, _, _)
\* the loop over the Error values of an error/fatal call
ErrorExtras(lg, call, level, errors, i) ==
    IF i > Len(errors) THEN <<>>
    ELSE logCauseChain(lg, call, level, errors[i].id)
         \o (IF ~Falsy(heap.estack[errors[i].id])
             THEN logStack(lg, call, "stack", level, heap.estack[errors[i].id], "  ")
             ELSE <<>>)
         \o ErrorExtras(lg, call, level, errors, i + 1)

----------------------------------------------------------------------------
(* JSON path                                                               *)

\* a JsonLogContext: each of its two properties is there or undefined.
\* NoContext is the context left out (or an empty one)
NoContext == [hasDuration |-> FALSE, duration |-> <<>>,
              hasDurationMs |-> FALSE, durationMs |-> 0]

\* the mutant: the module key is written whether or not a label is set
buildJsonRecordModuleAlways(lg, level, message, args, context, raw) ==
    LET errors == ErrorsAmong(message, args) IN
    Fresh("", "record",
        << StrNode("timestamp", <<"toISOString()">>),
           StrNode("level", <<level>>),
           Leaf("message", message),
           StrNode("module", <<lg.module>>) >>
        \o (IF Len(args) > 0
            THEN <<Fresh("args", "array",
                     [i \in 1..Len(args) |-> Leaf(ToString(i - 1), args[i])])>>
            ELSE <<>>)
        \o (IF context.hasDuration                 \* context?.duration !== undefined
            THEN <<StrNode("duration", context.duration)>>
            ELSE <<>>)
        \o (IF context.hasDurationMs               \* context?.durationMs !== undefined
            THEN <<[key |-> "durationMs", t |-> "num", id |-> "",
                    txt |-> <<ToString(context.durationMs)>>, kids |-> <<>>]>>
            ELSE <<>>)
        \o (IF level = "error" \/ level = "fatal"
            THEN (IF Len(errors) > 0
                  THEN <<Fresh("errors", "array",
                           [i \in 1..Len(errors) |->
                               serializeError(ToString(i - 1), errors[i].id)])>>
                  ELSE <<>>)
                 \o <<StrNode("nativeStack", captureNativeStack(raw))>>
            ELSE <<>>))

\* Logger.buildJsonRecord(level, message, args, context)
buildJsonRecord(lg, level, message, args, context, raw) ==
    LET errors == ErrorsAmong(message, args) IN
    Fresh("", "record",
        << StrNode("timestamp", <<"toISOString()">>),
           StrNode("level", <<level>>),
           Leaf("message", message) >>
        \o (IF lg.module # "" THEN <<StrNode("module", <<lg.module>>)>> ELSE <<>>)
        \o (IF Len(args) > 0
            THEN <<Fresh("args", "array",
                     [i \in 1..Len(args) |-> Leaf(ToString(i - 1), args[i])])>>
            ELSE <<>>)
        \o (IF context.hasDuration                 \* context?.duration !== undefined
            THEN <<StrNode("duration", context.duration)>>
            ELSE <<>>)
        \o (IF context.hasDurationMs               \* context?.durationMs !== undefined
            THEN <<[key |-> "durationMs", t |-> "num", id |-> "",
                    txt |-> <<ToString(context.durationMs)>>, kids |-> <<>>]>>
            ELSE <<>>)
        \o (IF level = "error" \/ level = "fatal"
            THEN (IF Len(errors) > 0
                  THEN <<Fresh("errors", "array",
                           [i \in 1..Len(errors) |->
                               serializeError(ToString(i - 1), errors[i].id)])>>
                  ELSE <<>>)
                 \o <<StrNode("nativeStack", captureNativeStack(raw))>>
            ELSE <<>>))

----------------------------------------------------------------------------
(* Logger.logInternal                                                      *)

\* the mutant: a call one rank below the minimum level passes
PassesOneBelow(lg, level) == ~(IndexOf(level) + 1 < IndexOf(lg.logLevel))

\* the mutant: a call at exactly the minimum level is filtered too
PassesStrictlyAbove(lg, level) == IndexOf(level) > IndexOf(lg.logLevel)

\* the negation of the early return of logInternal
Passes(lg, level) == ~(IndexOf(level) < IndexOf(lg.logLevel))

\* the jsonl branch: one record, one write, then process.exit(1) for fatal; a
\* TypeError of JSON.stringify propagates out of the call before the write
logJson(lg, call, level, message, args, context, raw) ==
    LET r == stringifyJsonRecord(buildJsonRecord(lg, level, message, args, context, raw))
    IN  IF r.thrown
        THEN [events |-> <<>>, thrown |-> TRUE, inv |-> r.st.inv]
        ELSE [events |-> <<writeJson(lg, call, level, r.tree)>>
                         \o (IF level = "fatal" THEN <<ExitEv(call, level)>> ELSE <<>>),
              thrown |-> FALSE, inv |-> r.st.inv]

\* the text branch: the primary line; for error/fatal the cause chains and stacks
\* of the Error values and the native stack; then process.exit(1) for fatal
logText(lg, call, level, message, args, raw) ==
    LET nativeStack == captureNativeStack(raw) IN
    [events |->
        <<writeLine(lg, call, "primary", level,
                    formatValue(message) \o formatArgs(args))>>
        \o (IF level = "error" \/ level = "fatal"
            THEN ErrorExtras(lg, call, level, ErrorsAmong(message, args), 1)
                 \o (IF ~Falsy(nativeStack)
                     THEN <<writeLine(lg, call, "header", level, <<"  Stack trace:">>)>>
                          \o logStack(lg, call, "native", level, nativeStack, "  ")
                     ELSE <<>>)
            ELSE <<>>)
        \o (IF level = "fatal" THEN <<ExitEv(call, level)>> ELSE <<>>),
     thrown |-> FALSE, inv |-> <<>>]

\* Logger.logInternal(level, message, args, context)
logInternal(lg, call, level, message, args, context, raw) ==
    IF ~Passes(lg, level)
    THEN [events |-> <<>>, thrown |-> FALSE, inv |-> <<>>]
    ELSE IF lg.outputFormat = "jsonl"
    THEN logJson(lg, call, level, message, args, context, raw)
    ELSE logText(lg, call, level, message, args, raw)

----------------------------------------------------------------------------
(* Construction and the setters                                            *)

NoLogger == [exists |-> FALSE, logLevel |-> "", module |-> "", moduleColor |-> <<>>,
             outputFormat |-> "", jsonlSplitStreams |-> FALSE,
             stdout |-> "", stderr |-> ""]

\* Logger.computeModuleColor(): no color for an empty label, else the color
\* derived from the label
computeModuleColor(module) == IF module = "" THEN <<>> ELSE <<"color of", module>>

RECURSIVE Join(_, _)
\* array.join(", ")
Join(seq, i) ==
    IF i > Len(seq) THEN <<>>
    ELSE (IF i > 1 THEN <<", ">> ELSE <<>>) \o <<seq[i]>> \o Join(seq, i + 1)

InvalidLevelMessage(level) ==
    <<"Invalid log level: \"", level, "\". Valid levels: ">> \o Join(LOG_LEVELS, 1)

InvalidFormatMessage(format) ==
    <<"Invalid output format: \"", format, "\". Valid formats: ">> \o Join(OUTPUT_FORMATS, 1)

\* a destructured option with a default: `name = dflt` takes dflt when the
\* option is absent or undefined
OrDefault(given, dflt) == IF given = "undefined" THEN dflt ELSE given

\* the mutant: the output format is not validated
constructAnyFormat(opts) ==
    LET logLevel == OrDefault(opts.logLevel, "info") IN
    IF ~IsLogLevel(logLevel)
    THEN [logger |-> NoLogger, threw |-> TRUE, error |-> InvalidLevelMessage(logLevel)]
    ELSE [logger |-> [exists |-> TRUE, logLevel |-> logLevel, module |-> opts.module,
                      moduleColor |-> computeModuleColor(opts.module),
                      outputFormat |-> opts.outputFormat,
                      jsonlSplitStreams |-> opts.jsonlSplitStreams,
                      stdout |-> "stdout", stderr |-> "stderr"],
          threw |-> FALSE, error |-> <<>>]

\* the mutant: an absent logLevel option defaults to the lowest level
constructDefaultDebug(opts) ==
    LET logLevel == OrDefault(opts.logLevel, "debug") IN
    IF ~IsLogLevel(logLevel)
    THEN [logger |-> NoLogger, threw |-> TRUE, error |-> InvalidLevelMessage(logLevel)]
    ELSE IF ~IsOutputFormat(opts.outputFormat)
    THEN [logger |-> NoLogger, threw |-> TRUE,
          error |-> InvalidFormatMessage(opts.outputFormat)]
    ELSE [logger |-> [exists |-> TRUE, logLevel |-> logLevel, module |-> opts.module,
                      moduleColor |-> computeModuleColor(opts.module),
                      outputFormat |-> opts.outputFormat,
                      jsonlSplitStreams |-> opts.jsonlSplitStreams,
                      stdout |-> "stdout", stderr |-> "stderr"],
          threw |-> FALSE, error |-> <<>>]

\* the Logger constructor: the instance it leaves and the Error it throws
construct(opts) ==
    LET logLevel == OrDefault(opts.logLevel, "info") IN
    IF ~IsLogLevel(logLevel)
    THEN [logger |-> NoLogger, threw |-> TRUE, error |-> InvalidLevelMessage(logLevel)]
    ELSE IF ~IsOutputFormat(opts.outputFormat)
    THEN [logger |-> NoLogger, threw |-> TRUE,
          error |-> InvalidFormatMessage(opts.outputFormat)]
    ELSE [logger |-> [exists |-> TRUE, logLevel |-> logLevel, module |-> opts.module,
                      moduleColor |-> computeModuleColor(opts.module),
                      outputFormat |-> opts.outputFormat,
                      jsonlSplitStreams |-> opts.jsonlSplitStreams,
                      stdout |-> "stdout", stderr |-> "stderr"],
          threw |-> FALSE, error |-> <<>>]

\* the mutant: the level is assigned before it is validated
setLogLevelAssignFirst(lg, level) ==
    IF ~IsLogLevel(level)
    THEN [logger |-> [lg EXCEPT !.logLevel = level], threw |-> TRUE,
          error |-> InvalidLevelMessage(level)]
    ELSE [logger |-> [lg EXCEPT !.logLevel = level], threw |-> FALSE, error |-> <<>>]

\* Logger.setLogLevel(level)
setLogLevel(lg, level) ==
    IF ~IsLogLevel(level)
    THEN [logger |-> lg, threw |-> TRUE, error |-> InvalidLevelMessage(level)]
    ELSE [logger |-> [lg EXCEPT !.logLevel = level], threw |-> FALSE, error |-> <<>>]

\* the mutant: the minimum level is reset with the label
setModuleResetsLevel(lg, module) ==
    [lg EXCEPT !.module = module, !.moduleColor = computeModuleColor(module),
               !.logLevel = "debug"]

\* Logger.setModule(module); the module colour is derived from the label
setModule(lg, module) ==
    [lg EXCEPT !.module = module, !.moduleColor = computeModuleColor(module)]

----------------------------------------------------------------------------
(* Timer and duration.ts                                                   *)

\* Math.round of a time given in clock ticks, in milliseconds
Round(ticks) == (2 * ticks + TicksPerMs) \div (2 * TicksPerMs)

\* msToDuration(ms)
msToDuration(ticks) ==
    [hours        |-> ticks \div (3600000 * TicksPerMs),
     minutes      |-> (ticks % (3600000 * TicksPerMs)) \div (60000 * TicksPerMs),
     seconds      |-> (ticks % (60000 * TicksPerMs)) \div (1000 * TicksPerMs),
     milliseconds |-> Round(ticks % (1000 * TicksPerMs))]

\* the mutant: the raw format shows the whole seconds
formatDurationRawSeconds(ticks, format) ==
    IF format = "raw"
    THEN <<ToString(msToDuration(ticks).seconds), "ms">>
    ELSE LET d == msToDuration(ticks) IN
         <<"Intl.DurationFormat", format, ToString(d.hours), ToString(d.minutes),
           ToString(d.seconds), ToString(d.milliseconds)>>

\* formatDuration(ms, format); Intl.DurationFormat is an external collaborator
formatDuration(ticks, format) ==
    IF format = "raw"
    THEN <<ToString(Round(ticks)), "ms">>
    ELSE LET d == msToDuration(ticks) IN
         <<"Intl.DurationFormat", format, ToString(d.hours), ToString(d.minutes),
           ToString(d.seconds), ToString(d.milliseconds)>>

TimerFormats == {"raw", "narrow"}

\* the Timer constructor
newTimer(clock, format) == [startTime |-> clock, format |-> format]

\* the mutant: the elapsed time is counted from the time origin
getElapsedDurationFromOrigin(tm, clock) ==
    [elapsedMs |-> clock,
     formatted |-> formatDuration(clock, tm.format)]

\* Timer.getElapsedDuration()
getElapsedDuration(tm, clock) ==
    [elapsedMs |-> clock - tm.startTime,
     formatted |-> formatDuration(clock - tm.startTime, tm.format)]

\* the mutant: an Error is handed on as it is
prependDurationTagKeepError(tm, clock, message) ==
    IF message.t = "err" THEN message
    ELSE StrVal(<<"[">> \o getElapsedDuration(tm, clock).formatted \o <<"]", " ">>
                \o (IF message.t = "str" THEN message.txt ELSE Inspect(message)))

\* Timer.prependDurationTag(message), with Logger.formatDurationTag
prependDurationTag(tm, clock, message) ==
    StrVal(<<"[">> \o getElapsedDuration(tm, clock).formatted \o <<"]", " ">>
           \o (IF message.t = "str" THEN message.txt ELSE Inspect(message)))

\* the mutant: the Timer writes whatever the minimum level of the logger is
timerLogUnfiltered(lg, tm, clock, call, level, message, args, raw) ==
    IF lg.outputFormat = "jsonl"
    THEN LET d == getElapsedDuration(tm, clock) IN
         logInternal([lg EXCEPT !.logLevel = "debug"], call, level, message, args,
                     [hasDuration |-> TRUE, duration |-> d.formatted,
                      hasDurationMs |-> TRUE, durationMs |-> Round(d.elapsedMs)], raw)
    ELSE logInternal([lg EXCEPT !.logLevel = "debug"], call, level,
                     prependDurationTag(tm, clock, message), args, NoContext, raw)

\* the mutant: durationMs comes from a second, later reading of the clock
timerLogSecondSample(lg, tm, clock, call, level, message, args, raw) ==
    IF lg.outputFormat = "jsonl"
    THEN LET d == getElapsedDuration(tm, clock)
             e == getElapsedDuration(tm, clock + 1) IN
         logInternal(lg, call, level, message, args,
                     [hasDuration |-> TRUE, duration |-> d.formatted,
                      hasDurationMs |-> TRUE, durationMs |-> Round(e.elapsedMs)], raw)
    ELSE logInternal(lg, call, level, prependDurationTag(tm, clock, message),
                     args, NoContext, raw)

\* Timer.log(level, message, ...args).  In JSON mode it goes through
\* logger.logWithContext, which hands its arguments to logInternal as they are;
\* Timer.log is the only caller of that method and gives it both properties of
\* the context
timerLog(lg, tm, clock, call, level, message, args, raw) ==
    IF lg.outputFormat = "jsonl"                       \* logger.isJsonlOutput()
    THEN LET d == getElapsedDuration(tm, clock) IN
         logInternal(lg, call, level, message, args,
                     [hasDuration |-> TRUE, duration |-> d.formatted,
                      hasDurationMs |-> TRUE, durationMs |-> Round(d.elapsedMs)], raw)
    ELSE logInternal(lg, call, level, prependDurationTag(tm, clock, message),
                     args, NoContext, raw)

----------------------------------------------------------------------------
(* The inputs                                                              *)

Hello == StrVal(<<"hello">>)

\* what a slot of a container can hold
KidVals == {ObjVal(o) : o \in Objs} \cup {ErrVal("e1"), ErrVal("e2")}

\* what a log call can be given as message and as extra argument
CallVals == {Hello, Prim("undef"), ObjVal("o1"), ObjVal("o2"), ErrVal("e1")}
ArgVals  == {ErrVal("e2")}

SeqsOfLen(S, n) == [1..n -> S]

ArgSeqs == UNION {SeqsOfLen(ArgVals, n) : n \in 0..MaxArgs}

\* new Error().stack at the call site: with frames, or with none at all
\* (Error.stackTraceLimit = 0)
NativeRaws == { <<"Error", "    at log", "", "    at main">>, <<"Error">> }

\* every content of the two containers with at most MaxSlots slots in all
KidMaps ==
    UNION { UNION { { [o \in Objs |-> IF o = "o1" THEN k1 ELSE k2] :
                        k1 \in SeqsOfLen(KidVals, n1), k2 \in SeqsOfLen(KidVals, n2) }
                    : n2 \in 0..(MaxSlots - n1) }
            : n1 \in 0..MaxSlots }

MkHeap(kids, cause) ==
    [kids |-> kids, cause |-> cause,
     ename |-> ErrName, emsg |-> ErrMessage, estack |-> ErrStack]

\* the heap of the lifecycle specification: o1 holds an Error with a cause and
\* then itself, o2 holds an Error with an empty cause chain and then itself;
\* e1 is caused by e2, e2 by e3, and e3 names itself as its cause
MainHeap ==
    MkHeap([o \in Objs |-> IF o = "o1" THEN <<ErrVal("e1"), ObjVal("o1")>>
                                        ELSE <<ErrVal("e3"), ObjVal("o2")>>],
           [e \in Errs |-> CASE e = "e1" -> "e2" [] e = "e2" -> "e3" [] OTHER -> "e3"])

\* the contexts logWithContext is called with on the logger: none, a duration
\* alone, a durationMs alone, both
LogContexts ==
    { [hasDuration |-> d, duration |-> IF d THEN <<"5ms">> ELSE <<>>,
       hasDurationMs |-> m, durationMs |-> IF m THEN 5 ELSE 0] : d, m \in BOOLEAN }

ConstructOpts ==
    [logLevel : Levels \cup {"invalid", "undefined"}, module : {"", "api"},
     outputFormat : {"text", "jsonl", "xml"}, jsonlSplitStreams : BOOLEAN]

----------------------------------------------------------------------------
(* The state machine                                                       *)

Exited == \E i \in DOMAIN out : out[i].kind = "exit"

stdout == SelectSeq(out, LAMBDA ev : ev.stream = "stdout")
stderr == SelectSeq(out, LAMBDA ev : ev.stream = "stderr")

\* The lifecycle specification follows one logger, through any sequence of
\* setter calls, timer creation and clock ticks, up to and including its first
\* log call: the process is alive and no log call was made yet
Running == ~Exited /\ calls = 0

Init ==
    /\ heap = MainHeap
    /\ logger = NoLogger
    /\ timers = <<>>
    /\ now = 0
    /\ out = <<>>
    /\ calls = 0
    /\ last = [op |-> "none"]

\* new Logger(opts)
Construct(opts) ==
    /\ ~logger.exists /\ Running
    /\ LET r == construct(opts) IN
       /\ logger' = r.logger
       /\ last' = [op |-> "construct", opts |-> opts, threw |-> r.threw, error |-> r.error]
    /\ UNCHANGED <<heap, timers, now, out, calls>>

\* the native stack a call at this level reads (it is captured for error and
\* fatal only)
RawRead(level, raw) == IF level = "error" \/ level = "fatal" THEN raw ELSE <<>>

\* what logger.log(level, message, ...args) does
DoLogCall(level, message, args, raw) ==
    /\ LET r == logInternal(logger, calls + 1, level, message, args, NoContext, raw) IN
       /\ out' = out \o r.events
       /\ last' = [op |-> "log", via |-> "logger", entry |-> "log", timer |-> 0,
                   call |-> calls + 1, at |-> now, level |-> level,
                   message |-> message, args |-> args, raw |-> RawRead(level, raw),
                   context |-> NoContext, threw |-> r.thrown]
    /\ calls' = calls + 1
    /\ UNCHANGED <<heap, logger, timers, now>>

\* what logger.logWithContext(level, message, args, context) does when it is
\* called on the logger itself.  The method is marked @internal and is made
\* for Timer.log, but it is a public method of the exported class
DoLogWithContext(level, message, args, context, raw) ==
    /\ LET r == logInternal(logger, calls + 1, level, message, args, context, raw) IN
       /\ out' = out \o r.events
       /\ last' = [op |-> "log", via |-> "logger", entry |-> "logWithContext", timer |-> 0,
                   call |-> calls + 1, at |-> now, level |-> level,
                   message |-> message, args |-> args, raw |-> RawRead(level, raw),
                   context |-> context, threw |-> r.thrown]
    /\ calls' = calls + 1
    /\ UNCHANGED <<heap, logger, timers, now>>

\* logger.logWithContext(level, message, args, context)
LogWithContext(level, message, args, context, raw) ==
    /\ logger.exists /\ Running
    /\ DoLogWithContext(level, message, args, context, raw)

\* logger.log(level, message, ...args) and its per-level forms
LogCall(level, message, args, raw) ==
    /\ logger.exists /\ Running
    /\ DoLogCall(level, message, args, raw)

\* what logger.setLogLevel(level) does
DoSetLogLevel(level) ==
    /\ LET r == setLogLevel(logger, level) IN
       /\ logger' = r.logger
       /\ last' = [op |-> "setLogLevel", level |-> level, threw |-> r.threw,
                   error |-> r.error]
    /\ UNCHANGED <<heap, timers, now, out, calls>>

\* logger.setLogLevel(level)
SetLogLevel(level) ==
    /\ logger.exists /\ Running
    /\ DoSetLogLevel(level)

\* what logger.setModule(module) does
DoSetModule(module) ==
    /\ logger' = setModule(logger, module)
    /\ last' = [op |-> "setModule", threw |-> FALSE]
    /\ UNCHANGED <<heap, timers, now, out, calls>>

\* logger.setModule(module)
SetModule(module) ==
    /\ logger.exists /\ Running
    /\ DoSetModule(module)

\* what logger.timer({format}) does
DoCreateTimer(format) ==
    /\ timers' = Append(timers, newTimer(now, format))
    /\ last' = [op |-> "timer", threw |-> FALSE]
    /\ UNCHANGED <<heap, logger, now, out, calls>>

\* logger.timer({format})
CreateTimer(format) ==
    /\ logger.exists /\ Running /\ timers = <<>>
    /\ DoCreateTimer(format)

\* what timer.log(level, message, ...args) does
DoTimerLog(i, level, message, args, raw) ==
    /\ LET r == timerLog(logger, timers[i], now, calls + 1, level, message, args, raw) IN
       /\ out' = out \o r.events
       /\ last' = [op |-> "log", via |-> "timer", timer |-> i, call |-> calls + 1,
                   at |-> now, level |-> level,
                   message |-> message, args |-> args, raw |-> RawRead(level, raw),
                   threw |-> r.thrown]
    /\ calls' = calls + 1
    /\ UNCHANGED <<heap, logger, timers, now>>

\* timer.log(level, message, ...args) and its per-level forms
TimerLog(i, level, message, args, raw) ==
    /\ logger.exists /\ Running
    /\ i \in DOMAIN timers
    /\ DoTimerLog(i, level, message, args, raw)

\* performance.now() advances by one tick
DoTick ==
    /\ now' = now + 1
    /\ UNCHANGED <<heap, logger, timers, out, calls, last>>

\* time passes between two operations; the clock is read by timers only, so it
\* is started with the first of them
Tick ==
    /\ Running /\ now < MaxClock /\ Len(timers) > 0
    /\ DoTick

Next ==
    \/ \E opts \in ConstructOpts : Construct(opts)
    \/ \E level \in Levels, message \in CallVals, args \in ArgSeqs, raw \in NativeRaws :
          LogCall(level, message, args, raw)
    \/ \E level \in Levels, message \in {Hello, ErrVal("e1")}, context \in LogContexts,
          raw \in NativeRaws : LogWithContext(level, message, <<>>, context, raw)
    \/ \E level \in Levels \cup {"bad"} : SetLogLevel(level)
    \/ \E module \in {"", "api"} : SetModule(module)
    \/ \E format \in TimerFormats : CreateTimer(format)
    \/ \E i \in DOMAIN timers, level \in Levels, message \in CallVals, args \in ArgSeqs,
          raw \in NativeRaws : TimerLog(i, level, message, args, raw)
    \/ Tick

Spec == Init /\ [][Next]_vars

----------------------------------------------------------------------------
(* The cause-chain specification: getErrorCauses on every cause graph      *)

CauseMaps == [Errs -> CauseVals]

NoKids == [o \in Objs |-> <<>>]

InitCauses ==
    /\ heap \in {MkHeap(NoKids, cause) : cause \in CauseMaps}
    /\ logger = NoLogger
    /\ timers = <<>>
    /\ now = 0
    /\ out = <<>>
    /\ calls = 0
    /\ last = [op |-> "none"]

\* getErrorCauses(error)
GetErrorCauses(e) ==
    /\ last' = [op |-> "getErrorCauses", error |-> e, ret |-> getErrorCauses(e)]
    /\ UNCHANGED <<heap, logger, timers, now, out, calls>>

\* serializeError(error)
SerializeError(e) ==
    /\ last' = [op |-> "serializeError", error |-> e, ret |-> serializeError("", e)]
    /\ UNCHANGED <<heap, logger, timers, now, out, calls>>

NextCauses ==
    \/ \E e \in Errs : GetErrorCauses(e)
    \/ \E e \in Errs : SerializeError(e)

SpecCauses == InitCauses /\ [][NextCauses]_vars

----------------------------------------------------------------------------
(* The serializer specification: one JSON-mode log call on every heap      *)

\* e1 has the cause chain [e2], and e2 has none
JsonCauseMaps ==
    { [e \in Errs |-> CASE e = "e1" -> "e2" [] OTHER -> "none"] }

JsonCallVals == {Hello, ErrVal("e1")}

JsonArgVals == {ObjVal("o1"), ErrVal("e1")}

JsonArgSeqs == UNION {SeqsOfLen(JsonArgVals, n) : n \in 0..MaxArgs}

JsonRaw == <<"Error", "    at log", "", "    at main">>

JsonLogger == [exists |-> TRUE, logLevel |-> "debug", module |-> "", moduleColor |-> <<>>,
               outputFormat |-> "jsonl", jsonlSplitStreams |-> FALSE,
               stdout |-> "stdout", stderr |-> "stderr"]

InitJson ==
    /\ heap \in {MkHeap(kids, cause) : kids \in KidMaps, cause \in JsonCauseMaps}
    /\ logger = JsonLogger
    /\ timers = <<>>
    /\ now = 0
    /\ out = <<>>
    /\ calls = 0
    /\ last = [op |-> "none"]

\* logger.log(level, message, ...args), with the calls of the replacer of
\* stringifyJsonRecord on object and array values recorded
JsonLogCall(level, message, args) ==
    /\ logger.exists /\ Running
    /\ LET r == logInternal(logger, calls + 1, level, message, args, NoContext, JsonRaw) IN
       /\ out' = out \o r.events
       /\ last' = [op |-> "log", via |-> "logger", timer |-> 0, call |-> calls + 1,
                   at |-> now, level |-> level,
                   message |-> message, args |-> args, raw |-> RawRead(level, JsonRaw),
                   entry |-> "log", context |-> NoContext, threw |-> r.thrown,
                   inv |-> r.inv]
    /\ calls' = calls + 1
    /\ UNCHANGED <<heap, logger, timers, now>>

NextJson ==
    \E level \in {"info", "error"}, message \in JsonCallVals, args \in JsonArgSeqs :
        JsonLogCall(level, message, args)

SpecJson == InitJson /\ [][NextJson]_vars

----------------------------------------------------------------------------
(* The timer specification: a text or JSON logger, its timers, and their   *)
(* emit calls as time passes                                               *)

TimerLoggers ==
    { [exists |-> TRUE, logLevel |-> "info", module |-> "", moduleColor |-> <<>>,
       outputFormat |-> f, jsonlSplitStreams |-> FALSE,
       stdout |-> "stdout", stderr |-> "stderr"] : f \in {"text", "jsonl"} }

InitTimers ==
    /\ heap = MainHeap
    /\ logger \in TimerLoggers
    /\ timers = <<>>
    /\ now = 0
    /\ out = <<>>
    /\ calls = 0
    /\ last = [op |-> "none"]

\* logger.timer({format})
NewTimer(format) ==
    /\ Len(timers) < MaxTimers
    /\ DoCreateTimer(format)

\* timer.info(message)
Emit(i) ==
    /\ i \in DOMAIN timers
    /\ calls < MaxCalls
    /\ DoTimerLog(i, "info", Hello, <<>>, JsonRaw)

\* time passes
Elapse ==
    /\ now < MaxClock
    /\ DoTick

NextTimers ==
    \/ \E format \in TimerFormats : NewTimer(format)
    \/ \E i \in 1..MaxTimers : Emit(i)
    \/ Elapse

SpecTimers == InitTimers /\ [][NextTimers]_vars

----------------------------------------------------------------------------
(* The scalar specification: one JSON-mode log call whose message, args    *)
(* and container slots hold large integers and non-finite numbers          *)

\* 10n, NaN, Infinity, -Infinity
ScalarVals == {Prim("bigint"), Prim("nan"), Prim("posinf"), Prim("neginf")}

ScalarCallVals == ScalarVals \cup {ObjVal("o1")}

ScalarArgSeqs == UNION {SeqsOfLen(ScalarCallVals, n) : n \in 0..MaxArgs}

\* o1 is an array of one scalar
ScalarHeaps ==
    { MkHeap([o \in Objs |-> IF o = "o1" THEN <<v>> ELSE <<>>],
             [e \in Errs |-> "none"]) : v \in ScalarVals }

InitScalars ==
    /\ heap \in ScalarHeaps
    /\ logger = JsonLogger
    /\ timers = <<>>
    /\ now = 0
    /\ out = <<>>
    /\ calls = 0
    /\ last = [op |-> "none"]

NextScalars ==
    \E message \in ScalarCallVals, args \in ScalarArgSeqs :
        LogCall("info", message, args, JsonRaw)

SpecScalars == InitScalars /\ [][NextScalars]_vars

----------------------------------------------------------------------------
(* Vocabulary of the properties                                            *)

Rank(level) ==
    CASE level = "debug" -> 0 [] level = "info" -> 1 [] level = "warn" -> 2
      [] level = "error" -> 3 [] level = "fatal" -> 4 [] OTHER -> -1

\* the writes of one call, and all its events (the writes and process.exit)
CallLines(c)  == SelectSeq(out, LAMBDA ev : ev.call = c /\ ev.kind # "exit")
CallEvents(c) == SelectSeq(out, LAMBDA ev : ev.call = c)

IsLog == last.op = "log"

\* the last operation was a log call at or above the minimum level
PassingLog == IsLog /\ Rank(last.level) >= Rank(logger.logLevel)

\* the context the last call handed to the record builder
LastContext ==
    IF last.via = "timer"
    THEN LET d == getElapsedDuration(timers[last.timer], last.at) IN
         [hasDuration |-> TRUE, duration |-> d.formatted,
          hasDurationMs |-> TRUE, durationMs |-> Round(d.elapsedMs)]
    ELSE last.context

RECURSIVE RefProperty(_, _, _)
\* the reference serialization: a container is replaced by "[Circular]" exactly
\* when it is identical to one of the containers open around it
RefProperty(n, path, chain) ==
    IF n.t = "err"
    THEN RefProperty(serializeError(n.key, n.id), path, chain)
    ELSE IF IsContainer(n)
    THEN IF Includes(chain, Ident(n, path))
         THEN [key |-> n.key, tok |-> <<"str">> \o Circular, kids |-> <<>>]
         ELSE [key |-> n.key, tok |-> <<"{">>,
               kids |-> LET ks == KidsOf(n) IN
                        [i \in 1..Len(ks) |->
                            RefProperty(ks[i], Append(path, ks[i].key),
                                        Append(chain, Ident(n, path)))]]
    ELSE ScalarTree(Replacer(n, path, <<>>, <<>>, [anc |-> <<>>, inv |-> <<>>]).val)

\* the containers a container holds directly, and all it reaches
Holds(o) == {heap.kids[o][i].id : i \in {j \in DOMAIN heap.kids[o] : heap.kids[o][j].t = "obj"}}

RECURSIVE ReachIn(_, _)
ReachIn(S, n) == IF n = 0 THEN S ELSE ReachIn(S \cup UNION {Holds(o) : o \in S}, n - 1)

Reaches(o) == ReachIn(Holds(o), Cardinality(Objs))

\* no containment cycle can be reached from o
Acyclic(o) == \A x \in {o} \cup Reaches(o) : x \notin Reaches(x)

KidByKey(tree, key) == tree.kids[CHOOSE i \in DOMAIN tree.kids : tree.kids[i].key = key]

HasKey(tree, key) == \E i \in DOMAIN tree.kids : tree.kids[i].key = key

\* is `part` a contiguous part of `seq`
Contains(seq, part) ==
    \E i \in 0..(Len(seq) - Len(part)) : \A j \in DOMAIN part : seq[i + j] = part[j]

----------------------------------------------------------------------------
(* C1  In JSON mode a passing log call never throws, whatever graph it is   *)
(* given, and writes exactly one line, in which every container identical  *)
(* to one of its open ancestors is replaced by "[Circular]".               *)

C1_JsonCyclesDegrade ==
    (PassingLog /\ logger.outputFormat = "jsonl") =>
        /\ ~last.threw
        /\ Len(CallLines(last.call)) = 1
        /\ CallLines(last.call)[1].tree =
              RefProperty(buildJsonRecord(logger, last.level, last.message, last.args,
                                          LastContext, last.raw),
                          <<"$">>, <<>>)

\* what does hold: a line that is written is the reference serialization
C1_WrittenLinesAreReference ==
    (PassingLog /\ logger.outputFormat = "jsonl" /\ ~last.threw) =>
        /\ Len(CallLines(last.call)) = 1
        /\ CallLines(last.call)[1].tree =
              RefProperty(buildJsonRecord(logger, last.level, last.message, last.args,
                                          LastContext, last.raw),
                          <<"$">>, <<>>)

----------------------------------------------------------------------------
(* C2  A log call below the minimum level, made on the Logger or through a  *)
(* Timer, in text or JSON mode, writes nothing to stdout and nothing to    *)
(* stderr (and does not terminate the process).                            *)

C2_BelowMinimumSilent ==
    (IsLog /\ Rank(last.level) < Rank(logger.logLevel)) =>
        /\ CallEvents(last.call) = <<>>
        /\ ~last.threw

C2_Witness ==
    /\ IsLog /\ last.via = "timer" /\ logger.outputFormat = "jsonl"
    /\ last.level = "error" /\ logger.logLevel = "fatal"
    /\ last.message.t = "err"
    /\ CallEvents(last.call) = <<>>

----------------------------------------------------------------------------
(* C3  A text-mode log call at or above the minimum level (equality        *)
(* included) writes exactly one primary line: the prefix, the formatted    *)
(* message and the formatted args.  For debug, info and warn that line is  *)
(* the only write of the call, Error values or not; lines after it occur   *)
(* for error and fatal only.                                               *)

C3_TextPrimaryLine ==
    (PassingLog /\ logger.outputFormat = "text") =>
        LET ls == CallLines(last.call) IN
        /\ Len(ls) >= 1
        /\ ls[1].kind = "primary"
        /\ \A i \in 2..Len(ls) : ls[i].kind # "primary"
        /\ ls[1].level = last.level
        /\ ls[1].module = logger.module
        /\ last.via = "logger" =>
              ls[1].text = formatValue(last.message) \o formatArgs(last.args)
        /\ last.level \in {"debug", "info", "warn"} => Len(ls) = 1
        /\ Len(ls) > 1 => last.level \in {"error", "fatal"}

C3_Witness ==
    /\ PassingLog /\ logger.outputFormat = "text" /\ last.via = "logger"
    /\ last.level = "warn" /\ logger.logLevel = "warn"
    /\ last.message.t = "err" /\ Len(last.args) > 0
    /\ Len(CallLines(last.call)) = 1

----------------------------------------------------------------------------
(* C4  In text mode every line of a debug or info call goes to stdout and  *)
(* every line of a warn, error or fatal call to stderr; the primary,       *)
(* cause, stack and header lines of one call go to one stream.             *)

C4_TextRouting ==
    logger.outputFormat = "text" =>
        /\ \A i \in DOMAIN out : out[i].kind # "exit" =>
              out[i].stream = (IF out[i].level \in {"debug", "info"}
                               THEN "stdout" ELSE "stderr")
        /\ \A i, j \in DOMAIN out :
              (out[i].kind # "exit" /\ out[j].kind # "exit" /\ out[i].call = out[j].call)
                  => out[i].stream = out[j].stream

C4_Witness ==
    /\ logger.outputFormat = "text"
    /\ \E i, j, k, l \in DOMAIN out :
          /\ out[i].kind = "primary" /\ out[j].kind = "cause"
          /\ out[k].kind = "stack" /\ out[l].kind = "header"
          /\ out[i].stream = "stderr" /\ out[l].stream = "stderr"

----------------------------------------------------------------------------
(* C5  In JSON mode with the split flag false, whatever setLogLevel,        *)
(* setModule and log calls were made, stderr has received nothing and      *)
(* every record is on stdout; with the flag true, debug and info records   *)
(* are on stdout and warn, error and fatal records on stderr.              *)

C5_JsonRouting ==
    logger.outputFormat = "jsonl" =>
        /\ ~logger.jsonlSplitStreams =>
              /\ stderr = <<>>
              /\ \A i \in DOMAIN out : out[i].kind = "json" => out[i].stream = "stdout"
        /\ logger.jsonlSplitStreams =>
              \A i \in DOMAIN out : out[i].kind = "json" =>
                  out[i].stream = (IF out[i].level \in {"debug", "info"}
                                   THEN "stdout" ELSE "stderr")

C5_Witness ==
    /\ logger.outputFormat = "jsonl" /\ ~logger.jsonlSplitStreams
    /\ last.op = "log" /\ last.level = "error"
    /\ \E i \in DOMAIN out : out[i].kind = "json" /\ out[i].level = "error"
                              /\ out[i].stream = "stdout"

----------------------------------------------------------------------------
(* C6  In a JSON line, when one container from which no containment cycle  *)
(* can be reached occurs more than once among message and args, every      *)
(* occurrence is serialized in full and none is "[Circular]".              *)

RECURSIVE FullTree(_)
\* the serialization of a value with no cycle rule at all
FullTree(n) ==
    IF n.t = "err" THEN FullTree(serializeError(n.key, n.id))
    ELSE IF IsContainer(n)
    THEN [key |-> n.key, tok |-> <<"{">>,
          kids |-> LET ks == KidsOf(n) IN [i \in 1..Len(ks) |-> FullTree(ks[i])]]
    ELSE ScalarTree(n)

\* the values of the last call, message first, and where each one is in the line
LastValues == <<last.message>> \o last.args

OccurrenceTree(line, p) ==
    IF p = 1 THEN KidByKey(line, "message")
    ELSE KidByKey(line, "args").kids[p - 1]

OccurrenceKey(p) == IF p = 1 THEN "message" ELSE ToString(p - 2)

Repeated(o) == Cardinality({p \in DOMAIN LastValues : LastValues[p] = ObjVal(o)}) >= 2

C6_RepeatedReferencesInFull ==
    (PassingLog /\ logger.outputFormat = "jsonl") =>
        \A k \in DOMAIN CallLines(last.call) : \A o \in Objs :
            (Acyclic(o) /\ Repeated(o)) =>
                \A p \in DOMAIN LastValues : LastValues[p] = ObjVal(o) =>
                    OccurrenceTree(CallLines(last.call)[k].tree, p)
                        = FullTree(Leaf(OccurrenceKey(p), ObjVal(o)))

C6_Witness ==
    /\ PassingLog /\ logger.outputFormat = "jsonl"
    /\ last.message = Hello /\ last.args = <<ObjVal("o1"), ObjVal("o1")>>
    /\ heap.kids["o1"] = <<ErrVal("e1"), ObjVal("o2")>>
    /\ heap.kids["o2"] = <<ErrVal("e2")>>
    /\ Len(CallLines(last.call)) = 1

----------------------------------------------------------------------------
(* C7  getErrorCauses(error) ends on every cause graph and returns the     *)
(* errors reached by following the cause links from error.cause, in order, *)
(* up to the first missing cause, the first cause that is no Error or the  *)
(* first node already visited; the root is not in the result and no node   *)
(* is in it twice.  A.cause = A gives [], and A.cause = B, B.cause = A     *)
(* gives [B].                                                              *)

\* what follows the chain r of the error e
NextCause(e, r) == IF Len(r) = 0 THEN heap.cause[e] ELSE heap.cause[r[Len(r)]]

C7_CauseChain ==
    last.op = "getErrorCauses" =>
        LET e == last.error
            r == last.ret
        IN  /\ \A i \in DOMAIN r : r[i] \in {"e1", "e2", "e3"}
            /\ \A i \in DOMAIN r :
                  r[i] = (IF i = 1 THEN heap.cause[e] ELSE heap.cause[r[i - 1]])
            /\ \A i \in DOMAIN r : r[i] # e
            /\ \A i, j \in DOMAIN r : i # j => r[i] # r[j]
            /\ \/ NextCause(e, r) \in {"none", "nonerr"}
               \/ NextCause(e, r) = e
               \/ \E i \in DOMAIN r : r[i] = NextCause(e, r)
            /\ heap.cause[e] = e => r = <<>>
            /\ \A b \in {"e1", "e2", "e3"} :
                  (b # e /\ heap.cause[e] = b /\ heap.cause[b] = e) => r = <<b>>

C7_Witness ==
    /\ last.op = "getErrorCauses" /\ last.error = "e1"
    /\ heap.cause["e1"] = "e2" /\ heap.cause["e2"] = "e3" /\ heap.cause["e3"] = "e2"
    /\ last.ret = <<"e2", "e3">>

----------------------------------------------------------------------------
(* C8  A fatal call passes whatever the minimum level is and, in text and  *)
(* in JSON mode, terminates the process exactly once, after the lines of   *)
(* the call were written; nothing is written after the termination.        *)

C8_FatalTerminatesLast ==
    (IsLog /\ last.level = "fatal") =>
        /\ Len(CallLines(last.call)) >= 1
        /\ Cardinality({i \in DOMAIN out : out[i].kind = "exit"}) = 1
        /\ out[Len(out)].kind = "exit"
        /\ out[Len(out)].call = last.call

\* what does hold: process.exit is the last event of `out`, and it ends a fatal
\* call that wrote its lines
C8_ExitIsLast ==
    \A i \in DOMAIN out : out[i].kind = "exit" =>
        /\ i = Len(out)
        /\ i > 1
        /\ out[i].level = "fatal"
        /\ out[i - 1].call = out[i].call

----------------------------------------------------------------------------
(* C9  Constructing a Logger with a level outside the five levels or with  *)
(* a format outside {text, jsonl} throws: no instance exists and nothing   *)
(* is written; the message about the level holds the rejected value and    *)
(* the list "debug, info, warn, error, fatal".  (An option left out is no   *)
(* rejected value: it takes its default.)                                  *)

LevelList == <<"debug", ", ", "info", ", ", "warn", ", ", "error", ", ", "fatal">>

C9_InvalidConstruction ==
    (last.op = "construct"
        /\ (last.opts.logLevel \notin {"undefined", "debug", "info", "warn", "error", "fatal"}
            \/ last.opts.outputFormat \notin {"text", "jsonl"})) =>
        /\ last.threw
        /\ logger = NoLogger
        /\ out = <<>>
        /\ last.opts.logLevel \notin {"undefined", "debug", "info", "warn", "error", "fatal"} =>
              /\ Contains(last.error, <<last.opts.logLevel>>)
              /\ Contains(last.error, LevelList)

C9_Witness ==
    /\ last.op = "construct" /\ last.threw
    /\ last.opts.logLevel = "warn" /\ last.opts.outputFormat = "xml"
    /\ ~logger.exists

----------------------------------------------------------------------------
(* C10  setLogLevel with a value outside the level set throws and leaves   *)
(* the minimum level, the module label, the format and the routing as they *)
(* were, so that later calls are filtered and routed as before.            *)

C10_FailedSetLogLevelChangesNothing ==
    [][(last'.op = "setLogLevel" /\ last'.threw) =>
          (logger' = logger /\ out' = out /\ timers' = timers)]_vars

\* every failed setLogLevel names its cause, and a setLogLevel that did not
\* throw left a level of the level set
C10_FailedSetLogLevelThrows ==
    last.op = "setLogLevel" =>
        IF last.threw THEN Contains(last.error, LevelList)
        ELSE logger.logLevel \in {"debug", "info", "warn", "error", "fatal"}

C10_Witness ==
    /\ last.op = "setLogLevel" /\ last.threw
    /\ logger.exists /\ logger.logLevel = "warn" /\ logger.module = "api"

----------------------------------------------------------------------------
(* C11  The minimum level of a logger is always one of debug, info, warn,   *)
(* error, fatal.  It is the construction level ("info" when the option was *)
(* left out) until a setLogLevel succeeds, after a successful setLogLevel  *)
(* it is that call's argument, and no other operation changes it; a log    *)
(* call is filtered by the value the level has when the call is made.      *)

C11_LevelIsLastSet ==
    /\ logger.exists => logger.logLevel \in {"debug", "info", "warn", "error", "fatal"}
    /\ (last.op = "construct" /\ ~last.threw) =>
          logger.logLevel = (IF last.opts.logLevel = "undefined" THEN "info"
                             ELSE last.opts.logLevel)
    /\ (last.op = "setLogLevel" /\ ~last.threw) => logger.logLevel = last.level
    /\ IsLog =>
          /\ Rank(last.level) < Rank(logger.logLevel) => CallEvents(last.call) = <<>>
          /\ Rank(last.level) >= Rank(logger.logLevel) =>
                (last.threw \/ Len(CallLines(last.call)) >= 1)

C11_LevelChangesBySetterOnly ==
    [][logger'.logLevel # logger.logLevel =>
          /\ last'.op \in {"construct", "setLogLevel"}
          /\ ~last'.threw]_vars

C11_MinimumLevel == []C11_LevelIsLastSet /\ C11_LevelChangesBySetterOnly

C11_Witness ==
    /\ last.op = "setLogLevel" /\ ~last.threw /\ last.level = "error"
    /\ logger.exists /\ logger.logLevel = "error"

----------------------------------------------------------------------------
(* C12  In text mode a passing error or fatal call writes, in this order:  *)
(* the primary line; for each Error among the values the Logger was given, *)
(* in their order, one "Caused by: <display message>" line per entry of    *)
(* its cause chain and then one line per non-blank line of its own stack;  *)
(* then the "Stack trace:" header; then one line per non-blank frame of    *)
(* the native stack.  Each line is a write of its own with its own prefix. *)
(* The header and the frames are there when the captured native stack is   *)
(* a non-empty string, and left out when it is empty.                      *)

\* the display message, as the specification words it
DisplayMessage(e) ==
    IF ErrMessage[e] # "" THEN ErrMessage[e]
    ELSE IF ErrName[e] # "" THEN ErrName[e] ELSE "Error"

\* the values the Logger was given by the last call: a Timer in text mode
\* hands over the tagged string in place of the message
GivenValues ==
    IF last.via = "timer" /\ logger.outputFormat = "text"
    THEN <<StrVal(<<"tagged">>)>> \o last.args
    ELSE <<last.message>> \o last.args

GivenErrors == SelectSeq(GivenValues, LAMBDA v : v.t = "err")

NonBlank(lines) == SelectSeq(lines, LAMBDA line : line \notin {"", " ", "  "})

Line(kind, text) == [kind |-> kind, text |-> text]

\* the cause lines and the stack lines of one error
LinesOfError(e) ==
    LET chain == getErrorCauses(e)
        stack == NonBlank(heap.estack[e])
    IN  [k \in 1..Len(chain) |-> Line("cause", <<"  Caused by: ", DisplayMessage(chain[k])>>)]
        \o [k \in 1..Len(stack) |-> Line("stack", <<"  ", stack[k]>>)]

RECURSIVE LinesOfErrors(_, _)
LinesOfErrors(errors, i) ==
    IF i > Len(errors) THEN <<>>
    ELSE LinesOfError(errors[i].id) \o LinesOfErrors(errors, i + 1)

\* the native stack of the last call: the raw stack without its first line
NativeLines == IF Len(last.raw) <= 1 THEN <<>> ELSE Tail(last.raw)

NativeIsEmpty == NativeLines = <<>> \/ NativeLines = <<"">>

HeaderAndFrames ==
    <<Line("header", <<"  Stack trace:">>)>>
    \o [k \in 1..Len(NonBlank(NativeLines)) |->
            Line("native", <<"  ", NonBlank(NativeLines)[k]>>)]

\* the lines of the last call after its primary line
LinesAfterPrimary ==
    LET ls == CallLines(last.call) IN
    [k \in 1..(Len(ls) - 1) |-> Line(ls[k + 1].kind, ls[k + 1].text)]

TextErrorCall ==
    PassingLog /\ logger.outputFormat = "text" /\ last.level \in {"error", "fatal"}

\* the claim as it was made: the header is always written
C12_TextErrorOrder ==
    TextErrorCall =>
        /\ Len(CallLines(last.call)) >= 1
        /\ CallLines(last.call)[1].kind = "primary"
        /\ LinesAfterPrimary = LinesOfErrors(GivenErrors, 1) \o HeaderAndFrames

\* the claim as amended
C12_TextErrorOrderNativeIfAny ==
    TextErrorCall =>
        /\ Len(CallLines(last.call)) >= 1
        /\ CallLines(last.call)[1].kind = "primary"
        /\ LinesAfterPrimary =
              LinesOfErrors(GivenErrors, 1)
              \o (IF NativeIsEmpty THEN <<>> ELSE HeaderAndFrames)
        /\ \A k \in DOMAIN CallLines(last.call) :
              /\ CallLines(last.call)[k].level = last.level
              /\ CallLines(last.call)[k].module = logger.module

C12_Witness ==
    /\ TextErrorCall /\ last.via = "logger"
    /\ last.message = ErrVal("e1") /\ last.args = <<ErrVal("e2")>>
    /\ ~NativeIsEmpty
    /\ Len(CallLines(last.call)) = 11

----------------------------------------------------------------------------
(* C13  Every JSON record has the keys timestamp, level and message; the   *)
(* message key is there, with the value null, also when the message is     *)
(* undefined.  module is there exactly when the module label is non-empty, *)
(* args exactly when an extra argument was passed, duration and durationMs *)
(* exactly when the call came through a Timer.  The keys come in the       *)
(* order timestamp, level, message, module, args, duration, durationMs,    *)
(* errors, nativeStack.                                                    *)
(* The calls are those of the logging interface: log, the per-level        *)
(* methods and the aliases on the Logger, and the calls on a Timer.  Of a   *)
(* record written by logWithContext called on the logger itself, the same  *)
(* holds but for duration and durationMs, each of which is there exactly   *)
(* when the context given has it.                                          *)

\* the record written by the last call
LastRecord == CallLines(last.call)[1].tree

KeysOf(tree) == [k \in DOMAIN tree.kids |-> tree.kids[k].key]

JsonLineWritten ==
    PassingLog /\ logger.outputFormat = "jsonl" /\ Len(CallLines(last.call)) >= 1

\* the last call was made through the logging interface
InterfaceCall == last.via = "timer" \/ last.entry = "log"

\* the context logWithContext was called with on the logger, if it was
GivenContext == IF InterfaceCall THEN NoContext ELSE last.context

\* the keys every record has and the three conditional groups
HeadKeys ==
    <<"timestamp", "level", "message">>
    \o (IF logger.module # "" THEN <<"module">> ELSE <<>>)
    \o (IF Len(last.args) > 0 THEN <<"args">> ELSE <<>>)
    \o (IF InterfaceCall
        THEN IF last.via = "timer" THEN <<"duration", "durationMs">> ELSE <<>>
        ELSE (IF GivenContext.hasDuration THEN <<"duration">> ELSE <<>>)
             \o (IF GivenContext.hasDurationMs THEN <<"durationMs">> ELSE <<>>))

C13_RecordKeys ==
    JsonLineWritten =>
        /\ \E tail \in {<<>>, <<"errors">>, <<"nativeStack">>, <<"errors", "nativeStack">>} :
              KeysOf(LastRecord) = HeadKeys \o tail
        /\ last.message = Prim("undef") => KidByKey(LastRecord, "message").tok = <<"null">>
        /\ InterfaceCall =>
              /\ HasKey(LastRecord, "duration") <=> last.via = "timer"
              /\ HasKey(LastRecord, "durationMs") <=> last.via = "timer"

\* a Timer call with an undefined message and one extra argument at the error
\* level, on a logger with a module label: the record has all nine keys
C13_Witness ==
    /\ JsonLineWritten /\ last.via = "timer" /\ logger.module = "api"
    /\ last.message = Prim("undef") /\ Len(last.args) = 1 /\ last.level = "error"
    /\ Len(KeysOf(LastRecord)) = 9

----------------------------------------------------------------------------
(* C14  A JSON record of a debug, info or warn call has neither the errors  *)
(* key nor the nativeStack key.  A record of an error or fatal call always *)
(* has nativeStack, and has errors exactly when there is an Error among    *)
(* [message, ...args]: then errors holds the serialized forms of those     *)
(* values, in that order; an Error nested in a container is not among      *)
(* them.                                                                   *)

C14_ErrorsAndNativeStack ==
    JsonLineWritten =>
        /\ last.level \in {"debug", "info", "warn"} =>
              /\ ~HasKey(LastRecord, "errors")
              /\ ~HasKey(LastRecord, "nativeStack")
        /\ last.level \in {"error", "fatal"} =>
              /\ HasKey(LastRecord, "nativeStack")
              /\ HasKey(LastRecord, "errors") <=> Len(GivenErrors) > 0
              /\ HasKey(LastRecord, "errors") =>
                    KidByKey(LastRecord, "errors").kids =
                        [i \in 1..Len(GivenErrors) |->
                            FullTree(serializeError(ToString(i - 1), GivenErrors[i].id))]

C14_Witness ==
    /\ JsonLineWritten /\ last.level = "fatal"
    /\ last.message = ErrVal("e1") /\ last.args = <<ErrVal("e2"), ErrVal("e2")>>
    /\ Len(KidByKey(LastRecord, "errors").kids) = 3

\* a nested Error is serialized where it is and not listed
C14_NestedWitness ==
    /\ JsonLineWritten /\ last.level = "error"
    /\ last.message = ObjVal("o2") /\ last.args = <<>>
    /\ ~HasKey(LastRecord, "errors")
    /\ KidByKey(LastRecord, "message").kids[1].tok = <<"{">>

----------------------------------------------------------------------------
(* C15  In JSON mode every passing log call, at every level and whatever   *)
(* Error values it carries, performs exactly one write, of one record;     *)
(* no cause, stack or header line is written.                              *)

C15_JsonOneWrite ==
    (PassingLog /\ logger.outputFormat = "jsonl") =>
        /\ Len(CallLines(last.call)) = 1
        /\ \A k \in DOMAIN CallLines(last.call) : CallLines(last.call)[k].kind = "json"

\* what does hold: a JSON call performs at most one write, which is a record,
\* and none exactly when JSON.stringify threw
C15_JsonAtMostOneWrite ==
    (PassingLog /\ logger.outputFormat = "jsonl") =>
        /\ Len(CallLines(last.call)) = (IF last.threw THEN 0 ELSE 1)
        /\ \A k \in DOMAIN CallLines(last.call) : CallLines(last.call)[k].kind = "json"

----------------------------------------------------------------------------
(* C16  serializeError(error) yields name, message (the display message of *)
(* the error) and, when error.stack is a non-empty string, stack; and,     *)
(* only when the cause chain is non-empty, causes: one {name, message,     *)
(* stack} entry per element of the cause chain, in chain order.  No cause  *)
(* entry has a causes field, so for A.cause = B, B.cause = A the record of *)
(* A has exactly one cause entry, the one of B.                            *)

\* the chain of an error, by the rule of the cause chain: follow the cause
\* links until there is none, or no Error, or an error seen before
RECURSIVE ChainFrom(_, _)
ChainFrom(c, seen) ==
    IF c \notin {"e1", "e2", "e3"} \/ c \in seen THEN <<>>
    ELSE <<c>> \o ChainFrom(heap.cause[c], seen \cup {c})

ChainOf(e) == ChainFrom(heap.cause[e], {e})

NameOf(e) == IF ErrName[e] # "" THEN ErrName[e] ELSE "Error"

HasStack(e) == ErrStack[e] # <<>> /\ ErrStack[e] # <<"">>

TxtByKey(node, key) == node.kids[CHOOSE i \in DOMAIN node.kids : node.kids[i].key = key].txt

NodeKeys(node) == [k \in DOMAIN node.kids |-> node.kids[k].key]

\* the cause entries of a serialized error are those of the chain
CausesAreChain(node, e) ==
    LET chain == ChainOf(e)
        causes == node.kids[Len(node.kids)]
    IN  /\ causes.key = "causes"
        /\ Len(causes.kids) = Len(chain)
        /\ \A i \in DOMAIN chain :
              /\ NodeKeys(causes.kids[i]) = <<"name", "message", "stack">>
              /\ TxtByKey(causes.kids[i], "name") = <<NameOf(chain[i])>>
              /\ TxtByKey(causes.kids[i], "message") = <<DisplayMessage(chain[i])>>
              /\ TxtByKey(causes.kids[i], "stack") = ErrStack[chain[i]]

\* the claim as it was made: stack is a key of every serialized error
C16_SerializeErrorShape ==
    last.op = "serializeError" =>
        LET e == last.error
            r == last.ret
        IN  /\ NodeKeys(r) = <<"name", "message", "stack">>
                              \o (IF Len(ChainOf(e)) > 0 THEN <<"causes">> ELSE <<>>)
            /\ TxtByKey(r, "name") = <<NameOf(e)>>
            /\ TxtByKey(r, "message") = <<DisplayMessage(e)>>
            /\ Len(ChainOf(e)) > 0 => CausesAreChain(r, e)

\* the claim as amended
C16_SerializeErrorShapeStackIfAny ==
    last.op = "serializeError" =>
        LET e == last.error
            r == last.ret
        IN  /\ NodeKeys(r) = <<"name", "message">>
                              \o (IF HasStack(e) THEN <<"stack">> ELSE <<>>)
                              \o (IF Len(ChainOf(e)) > 0 THEN <<"causes">> ELSE <<>>)
            /\ TxtByKey(r, "name") = <<NameOf(e)>>
            /\ TxtByKey(r, "message") = <<DisplayMessage(e)>>
            /\ HasStack(e) => TxtByKey(r, "stack") = ErrStack[e]
            /\ Len(ChainOf(e)) > 0 => CausesAreChain(r, e)
            /\ \A b \in {"e1", "e2", "e3"} :
                  (b # e /\ heap.cause[e] = b /\ heap.cause[b] = e) =>
                      Len(r.kids[Len(r.kids)].kids) = 1

C16_Witness ==
    /\ last.op = "serializeError" /\ last.error = "e1"
    /\ heap.cause["e1"] = "e2" /\ heap.cause["e2"] = "e1"
    /\ NodeKeys(last.ret) = <<"name", "message", "stack", "causes">>
    /\ Len(last.ret.kids[4].kids) = 1

----------------------------------------------------------------------------
(* C17  In a JSON line every NaN, Infinity, -Infinity and every bigint, as *)
(* the message, as an extra argument or in a slot of a container, is       *)
(* written as a string; none is written as null and none makes the call    *)
(* throw.                                                                  *)

NonFinite == {"nan", "posinf", "neginf"}

\* the trees of the last record whose value is of one of the given types: the
\* message, the args, and the slot of o1 wherever o1 was passed
RECURSIVE TreesOf(_, _, _)
TreesOf(values, trees, P) ==
    IF values = <<>> THEN {}
    ELSE (IF Head(values).t \in P THEN {Head(trees)} ELSE {})
         \cup (IF Head(values) = ObjVal("o1") /\ heap.kids["o1"][1].t \in P
               THEN {Head(trees).kids[1]} ELSE {})
         \cup TreesOf(Tail(values), Tail(trees), P)

LastTrees(P) ==
    TreesOf(LastValues,
            <<KidByKey(LastRecord, "message")>>
            \o (IF Len(last.args) > 0 THEN KidByKey(LastRecord, "args").kids ELSE <<>>),
            P)

C17_NonFiniteAndBigintAsStrings ==
    (PassingLog /\ logger.outputFormat = "jsonl") =>
        /\ ~last.threw
        /\ Len(CallLines(last.call)) = 1
        /\ \A t \in LastTrees(NonFinite \cup {"bigint"}) :
              t.tok[1] = "str"

\* what does hold: a bigint is written as a string, a non-finite number as
\* null, and the call does not throw
C17_BigintStringNonFiniteNull ==
    (PassingLog /\ logger.outputFormat = "jsonl") =>
        /\ ~last.threw
        /\ Len(CallLines(last.call)) = 1
        /\ \A t \in LastTrees({"bigint"}) : t.tok[1] = "str"
        /\ \A t \in LastTrees(NonFinite) : t.tok = <<"null">>

----------------------------------------------------------------------------
(* C18  The display message of an error is its message when that is        *)
(* non-empty, otherwise its name when that is non-empty, otherwise         *)
(* "Error"; it is never the empty string.  It is the text written for an   *)
(* Error the Logger is given as message or as argument in the primary text *)
(* line, and for each cause in a "Caused by:" line.                        *)

\* a value as the primary line shows it
Shown(v) ==
    IF v.t = "str" THEN v.txt
    ELSE IF v.t = "err" THEN <<DisplayMessage(v.id)>>
    ELSE <<"inspect", v.t, v.id>>

RECURSIVE ShownArgs(_)
ShownArgs(args) ==
    IF args = <<>> THEN <<>> ELSE <<" ">> \o Shown(Head(args)) \o ShownArgs(Tail(args))

\* the display messages of the cause chains of the errors, in order
RECURSIVE CauseTexts(_)
CauseTexts(errors) ==
    IF errors = <<>> THEN <<>>
    ELSE LET chain == ChainOf(Head(errors).id) IN
         [k \in 1..Len(chain) |-> DisplayMessage(chain[k])] \o CauseTexts(Tail(errors))

\* is `part` the end of `seq`
EndsWith(seq, part) ==
    /\ Len(part) <= Len(seq)
    /\ SubSeq(seq, Len(seq) - Len(part) + 1, Len(seq)) = part

C18_DisplayMessage ==
    (PassingLog /\ logger.outputFormat = "text") =>
        LET ls     == CallLines(last.call)
            causes == SelectSeq(ls, LAMBDA ev : ev.kind = "cause")
        IN  /\ last.via = "logger" => ls[1].text = Shown(last.message) \o ShownArgs(last.args)
            /\ last.via = "timer" => EndsWith(ls[1].text, ShownArgs(last.args))
            /\ (last.via = "logger" /\ last.message.t = "err") => ls[1].text[1] # ""
            /\ \A k \in DOMAIN causes : causes[k].text[2] # ""
            /\ last.level \in {"error", "fatal"} =>
                  [k \in DOMAIN causes |-> causes[k].text]
                      = [k \in DOMAIN CauseTexts(GivenErrors) |->
                            <<"  Caused by: ", CauseTexts(GivenErrors)[k]>>]

C18_Witness ==
    /\ PassingLog /\ logger.outputFormat = "text" /\ last.via = "logger"
    /\ last.level = "error"
    /\ last.message = ErrVal("e1") /\ last.args = <<ErrVal("e2")>>
    /\ CallLines(last.call)[1].text = <<"boom", " ", "TypeError">>
    /\ CallLines(last.call)[3].text = <<"  Caused by: ", "Error">>

----------------------------------------------------------------------------
(* C19  The start instant of a Timer is the clock reading at its creation  *)
(* and no emit call, on it or on another timer, changes it.  Each emit     *)
(* reports the clock reading at the emit minus that start, so on one       *)
(* timer the elapsed time reported by an emit is never smaller than the    *)
(* one reported by the emit before it.                                     *)

\* the number a decimal token stands for
NumOf(tok) == CHOOSE n \in 0..(MaxClock + 1) : ToString(n) = tok

\* Math.round of a time in clock ticks, in milliseconds: the integer n with
\* n - 1/2 <= ms < n + 1/2
RoundMs(ticks) ==
    CHOOSE n \in 0..(MaxClock + 1) :
        /\ (2 * n - 1) * TicksPerMs <= 2 * ticks
        /\ 2 * ticks < (2 * n + 1) * TicksPerMs

\* the elapsed milliseconds the first line of call c reports: durationMs of a
\* record, the number of a raw tag, the fields of a formatted tag
Reported(c) ==
    LET ev == CallLines(c)[1] IN
    IF ev.kind = "json" THEN NumOf(KidByKey(ev.tree, "durationMs").tok[2])
    ELSE IF ev.text[3] = "ms" THEN NumOf(ev.text[2])
    ELSE ((NumOf(ev.text[4]) * 60 + NumOf(ev.text[5])) * 60 + NumOf(ev.text[6])) * 1000
         + NumOf(ev.text[7])

ReportedLast == Reported(last.call)

TimerEmit == IsLog /\ last.via = "timer" /\ Len(CallLines(last.call)) >= 1

\* the step is an emit on the timer the emit before it was on
NextEmitOnSameTimer ==
    /\ TimerEmit /\ TimerEmit'
    /\ last'.call = last.call + 1
    /\ last'.timer = last.timer

C19_StartIsCreationInstant ==
    [][/\ \A i \in DOMAIN timers :
             i \in DOMAIN timers' /\ timers'[i].startTime = timers[i].startTime
       /\ Len(timers') > Len(timers) => timers'[Len(timers')].startTime = now]_vars

C19_ReportsNowMinusStart ==
    TimerEmit => ReportedLast = RoundMs(last.at - timers[last.timer].startTime)

C19_NeverSmaller ==
    [][NextEmitOnSameTimer => ReportedLast' >= ReportedLast]_vars

C19_TimerStartFixed ==
    /\ C19_StartIsCreationInstant
    /\ []C19_ReportsNowMinusStart
    /\ C19_NeverSmaller

\* a second timer, created later, emitted in between; the first timer reports
\* its own elapsed time
C19_Witness ==
    /\ TimerEmit /\ last.call = 2 /\ last.timer = 1
    /\ Len(timers) = 2 /\ timers[1].startTime = 0 /\ timers[2].startTime = 1
    /\ last.at = 2
    /\ ReportedLast = 1
    /\ Reported(1) = 0

----------------------------------------------------------------------------
(* C20  When a timer is emitted twice and at least one millisecond passes  *)
(* between the two emits, the second elapsed time shown in the raw-format  *)
(* tag is strictly greater than the first.  After a shorter delay it can   *)
(* be the same number; it is never smaller.                                *)

RawTextEmit ==
    /\ TimerEmit /\ logger.outputFormat = "text"
    /\ timers[last.timer].format = "raw"

\* the claim as it was made: any delay makes the second number greater
C20_StrictlyGreaterAfterDelay ==
    [][(NextEmitOnSameTimer /\ RawTextEmit' /\ last'.at > last.at)
          => ReportedLast' > ReportedLast]_vars

\* the claim as amended
C20_GreaterAfterOneMs ==
    [][(NextEmitOnSameTimer /\ RawTextEmit')
          => /\ ReportedLast' >= ReportedLast
             /\ last'.at - last.at >= TicksPerMs => ReportedLast' > ReportedLast]_vars

C20_Witness ==
    /\ RawTextEmit /\ last.call = 2
    /\ Len(timers) = 1
    /\ last.at = TicksPerMs
    /\ Reported(1) = 0 /\ ReportedLast = 1

----------------------------------------------------------------------------
(* C21  In JSON mode a Timer call hands the message and the args to the    *)
(* Logger as they are: the record it writes is, key by key, the record of  *)
(* the same call made directly on the Logger, with duration and durationMs *)
(* added.  duration is the formatted and durationMs the rounded value of   *)
(* one elapsed time, the clock reading of the call minus the start.        *)

JsonTimerLine == JsonLineWritten /\ last.via = "timer"

\* the record the same call writes when it is made directly on the Logger
DirectRecord ==
    stringifyJsonRecord(buildJsonRecord(logger, last.level, last.message, last.args,
                                        NoContext, last.raw)).tree

WithoutDuration(kids) ==
    SelectSeq(kids, LAMBDA kid : kid.key \notin {"duration", "durationMs"})

\* the elapsed time of the last call, in clock ticks
LastElapsed == last.at - timers[last.timer].startTime

C21_JsonTimerContext ==
    JsonTimerLine =>
        /\ WithoutDuration(LastRecord.kids) = DirectRecord.kids
        /\ KidByKey(LastRecord, "message") = KidByKey(DirectRecord, "message")
        /\ KidByKey(LastRecord, "duration").tok
              = <<"str">> \o formatDuration(LastElapsed, timers[last.timer].format)
        /\ KidByKey(LastRecord, "durationMs").tok
              = <<"num", ToString(RoundMs(LastElapsed))>>

\* an object as message and an Error as argument, half a millisecond after the
\* timer was created
C21_Witness ==
    /\ JsonTimerLine
    /\ last.message = ObjVal("o2") /\ last.args = <<ErrVal("e2")>>
    /\ timers[last.timer].format = "raw" /\ LastElapsed = 1
    /\ KidByKey(LastRecord, "message").tok = <<"{">>
    /\ KidByKey(LastRecord, "duration").tok = <<"str", "1", "ms">>
    /\ KidByKey(LastRecord, "durationMs").tok = <<"num", "1">>

----------------------------------------------------------------------------
(* C22  In text mode the primary line of a Timer call carries the level    *)
(* tag and the module tag of the logger and then, in this order, the tag   *)
(* "[<formatted duration>]", one space, the message as the value formatter *)
(* of the Logger shows it (a string as it is, an Error by its display      *)
(* message, any other value inspected) and the formatted args.             *)

TextTimerLine ==
    /\ PassingLog /\ logger.outputFormat = "text" /\ last.via = "timer"
    /\ Len(CallLines(last.call)) >= 1

DurationTag == <<"[">> \o formatDuration(LastElapsed, timers[last.timer].format) \o <<"]">>

C22_TimerTextLine ==
    TextTimerLine =>
        LET line == CallLines(last.call)[1] IN
        /\ line.kind = "primary"
        /\ line.level = last.level /\ line.module = logger.module
        /\ line.text = DurationTag \o <<" ">> \o Shown(last.message) \o ShownArgs(last.args)

\* what does hold: the Timer inspects every message that is no string, an
\* Error too
TimerShown(v) == IF v.t = "str" THEN v.txt ELSE <<"inspect", v.t, v.id>>

C22_TimerTextLineInspected ==
    TextTimerLine =>
        LET line == CallLines(last.call)[1] IN
        /\ line.kind = "primary"
        /\ line.level = last.level /\ line.module = logger.module
        /\ line.text = DurationTag \o <<" ">> \o TimerShown(last.message)
                          \o ShownArgs(last.args)

----------------------------------------------------------------------------
(* The call-sequence specification: a logger and a timer it has created,   *)
(* then any sequence of setter calls and of log calls made on the logger   *)
(* and through the timer                                                   *)

SeqLoggers ==
    { [exists |-> TRUE, logLevel |-> "info", module |-> "api",
       moduleColor |-> computeModuleColor("api"),
       outputFormat |-> f, jsonlSplitStreams |-> FALSE,
       stdout |-> "stdout", stderr |-> "stderr"] : f \in {"text", "jsonl"} }

SeqLevels == {"info", "error"}

SeqVals == {Hello, ErrVal("e1")}

InitSeq ==
    /\ heap = MainHeap
    /\ logger \in SeqLoggers
    /\ timers = <<newTimer(0, "raw")>>
    /\ now = 0
    /\ out = <<>>
    /\ calls = 0
    /\ last = [op |-> "none"]

SeqLog(level, message) ==
    /\ calls < MaxCalls
    /\ DoLogCall(level, message, <<>>, JsonRaw)

SeqLogWithContext(level, context) ==
    /\ calls < MaxCalls
    /\ DoLogWithContext(level, Hello, <<>>, context, JsonRaw)

SeqTimerLog(level, message) ==
    /\ calls < MaxCalls
    /\ DoTimerLog(1, level, message, <<>>, JsonRaw)

SeqSetLogLevel(level) == DoSetLogLevel(level)

SeqSetModule(module) == DoSetModule(module)

NextSeq ==
    \/ \E level \in SeqLevels, message \in SeqVals : SeqLog(level, message)
    \/ \E level \in SeqLevels, context \in LogContexts : SeqLogWithContext(level, context)
    \/ \E level \in SeqLevels, message \in SeqVals : SeqTimerLog(level, message)
    \/ \E level \in SeqLevels : SeqSetLogLevel(level)
    \/ \E module \in {"", "db"} : SeqSetModule(module)

SpecSeq == InitSeq /\ [][NextSeq]_vars

----------------------------------------------------------------------------
(* C23  A Timer call at level L writes exactly when the same call made     *)
(* directly on the owning logger would write in the state the logger has   *)
(* at the call, whatever was set after the timer was created; its lines    *)
(* go to the stream the direct call writes to; and for a string message it *)
(* performs the same writes, one for one (kind, stream, level tag and      *)
(* module tag), and ends the same way.  Every write of the call is one the *)
(* Logger performs.                                                        *)

\* the events of the last call, had it been made directly on the logger
DirectEvents ==
    logInternal(logger, last.call, last.level, last.message, last.args,
                NoContext, last.raw).events

Routing(ev) == [kind |-> ev.kind, stream |-> ev.stream, level |-> ev.level,
                module |-> ev.module]

StreamsOf(events) == {events[k].stream : k \in DOMAIN events}

----------------------------------------------------------------------------
(* C25  In text mode every line a step writes (primary, cause, stack,      *)
(* header and native-stack lines) has, between its level tag and its       *)
(* payload, the segment "[m] " when the module label m of the logger is    *)
(* non-empty at that step, and nothing when the label is empty.  So after  *)
(* setModule(m2) the later lines carry m2; no step changes a line that was *)
(* written before.                                                         *)

TextKinds == {"primary", "cause", "stack", "header", "native"}

\* what a prefix holds after the level tag and the two spaces that follow it
ModuleSegment(prefix) == SubSeq(prefix, 5, Len(prefix))

ExpectedSegment(module) ==
    IF module = "" THEN <<>> ELSE <<"[", module, "]", " ">>

C25_ModuleTagOfLines ==
    [][/\ Len(out') >= Len(out)
       /\ SubSeq(out', 1, Len(out)) = out
       /\ \A k \in (Len(out) + 1)..Len(out') :
             out'[k].kind \in TextKinds =>
                /\ out'[k].prefix[3] = LevelTag(out'[k].level)
                /\ ModuleSegment(out'[k].prefix) = ExpectedSegment(logger.module)]_vars

\* a line written under the label "api" and then, after setModule("db"), the
\* lines of an error call, all under "db"
C25_Witness ==
    /\ logger.outputFormat = "text" /\ logger.module = "db"
    /\ IsLog /\ last.call = 2
    /\ CallLines(1) # <<>>
    /\ \A k \in DOMAIN out :
          out[k].call = 1 => ModuleSegment(out[k].prefix) = <<"[", "api", "]", " ">>
    /\ \E k \in DOMAIN out : out[k].call = 2 /\ out[k].kind = "cause"
    /\ \E k \in DOMAIN out : out[k].call = 2 /\ out[k].kind = "native"
    /\ \A k \in DOMAIN out :
          out[k].call = 2 => ModuleSegment(out[k].prefix) = <<"[", "db", "]", " ">>

----------------------------------------------------------------------------
(* The call-form specification: one call, in every form the API offers, on *)
(* a logger or through a timer it has created                              *)

PerLevelMethods == {"logDebug", "logInfo", "logWarn", "logError", "logFatal"}

CallForms == {"log"} \cup PerLevelMethods \cup Levels

\* the mutant: logWarn passes "error"
LevelOfMethodWarnAsError(method) ==
    CASE method = "logDebug" -> "debug" [] method = "logInfo" -> "info"
      [] method = "logWarn" -> "error" [] method = "logError" -> "error"
      [] method = "logFatal" -> "fatal"

\* the level literal a per-level method passes to log
LevelOfMethod(method) ==
    CASE method = "logDebug" -> "debug" [] method = "logInfo" -> "info"
      [] method = "logWarn" -> "warn" [] method = "logError" -> "error"
      [] method = "logFatal" -> "fatal"

\* the per-level method a short alias calls
AliasTarget(alias) ==
    CASE alias = "debug" -> "logDebug" [] alias = "info" -> "logInfo"
      [] alias = "warn" -> "logWarn" [] alias = "error" -> "logError"
      [] alias = "fatal" -> "logFatal"

\* the level with which a call in this form reaches log
LevelPassed(method, level) ==
    IF method = "log" THEN level
    ELSE IF method \in PerLevelMethods THEN LevelOfMethod(method)
    ELSE LevelOfMethod(AliasTarget(method))

\* the frames of the methods the call went through before it reached log, as
\* new Error().stack lists them, innermost first
WrapperFrames(method) ==
    IF method = "log" THEN <<>>
    ELSE IF method \in PerLevelMethods THEN <<"    at " \o method>>
    ELSE <<"    at " \o AliasTarget(method), "    at " \o method>>

\* new Error().stack in captureNativeStack for a call made from main
FormRaw(method) ==
    <<"Error", "    at log">> \o WrapperFrames(method) \o <<"    at main">>

FormLoggers ==
    { [exists |-> TRUE, logLevel |-> l, module |-> "api",
       moduleColor |-> computeModuleColor("api"),
       outputFormat |-> f, jsonlSplitStreams |-> FALSE,
       stdout |-> "stdout", stderr |-> "stderr"] :
         l \in Levels, f \in {"text", "jsonl"} }

InitForms ==
    /\ heap = MainHeap
    /\ logger \in FormLoggers
    /\ timers = <<newTimer(0, "raw")>>
    /\ now = 0
    /\ out = <<>>
    /\ calls = 0
    /\ last = [op |-> "none"]

\* logger.log(level, message), logger.logL(message) or logger.L(message)
FormLog(method, level, message) ==
    /\ calls = 0
    /\ LET r == logInternal(logger, calls + 1, LevelPassed(method, level), message,
                            <<>>, NoContext, FormRaw(method)) IN
       /\ out' = out \o r.events
       /\ last' = [op |-> "log", via |-> "logger", timer |-> 0, call |-> calls + 1,
                   at |-> now, method |-> method, level |-> level,
                   message |-> message, args |-> <<>>, entry |-> "log",
                   context |-> NoContext, threw |-> r.thrown]
    /\ calls' = calls + 1
    /\ UNCHANGED <<heap, logger, timers, now>>

\* timer.log(level, message), timer.logL(message) or timer.L(message)
FormTimerLog(method, level, message) ==
    /\ calls = 0
    /\ LET r == timerLog(logger, timers[1], now, calls + 1, LevelPassed(method, level),
                         message, <<>>, FormRaw(method)) IN
       /\ out' = out \o r.events
       /\ last' = [op |-> "log", via |-> "timer", timer |-> 1, call |-> calls + 1,
                   at |-> now, method |-> method, level |-> level,
                   message |-> message, args |-> <<>>, threw |-> r.thrown]
    /\ calls' = calls + 1
    /\ UNCHANGED <<heap, logger, timers, now>>

\* the level argument exists in the generic form only
FormLevels(method) == IF method = "log" THEN Levels ELSE {"none"}

NextForms ==
    \/ \E method \in CallForms, message \in SeqVals :
          \E level \in FormLevels(method) : FormLog(method, level, message)
    \/ \E method \in CallForms, message \in SeqVals :
          \E level \in FormLevels(method) : FormTimerLog(method, level, message)

SpecForms == InitForms /\ [][NextForms]_vars

----------------------------------------------------------------------------
(* C24  For each level L the calls log(L, m), logL(m) and L(m), made in    *)
(* the same logger state with the same arguments, perform the same writes  *)
(* on the same streams and end the same way, apart from the call-site      *)
(* native stack of an error or fatal call, which lists the methods the     *)
(* call went through (the frame lines after "Stack trace:" in text mode,   *)
(* the nativeStack field in JSON mode).  At debug, info and warn the       *)
(* three forms are the same altogether.  The same holds on a Timer.        *)

LongForm(level) ==
    CASE level = "debug" -> "logDebug" [] level = "info" -> "logInfo"
      [] level = "warn" -> "logWarn" [] level = "error" -> "logError"
      [] level = "fatal" -> "logFatal"

\* the level L of the last call: given to log, or named by the method
FormLevel ==
    IF last.method = "log" THEN last.level
    ELSE CHOOSE l \in Levels : last.method \in {l, LongForm(l)}

\* the events of log(L, m) in the state and with the arguments of the last call
GenericEvents ==
    IF last.via = "logger"
    THEN logInternal(logger, last.call, FormLevel, last.message, last.args,
                     NoContext, FormRaw("log")).events
    ELSE timerLog(logger, timers[last.timer], last.at, last.call, FormLevel,
                  last.message, last.args, FormRaw("log")).events

\* the events without what shows the native stack
WithoutNativeStack(events) ==
    LET kept == SelectSeq(events, LAMBDA ev : ev.kind # "native") IN
    [k \in DOMAIN kept |->
        IF kept[k].kind = "json"
        THEN [kept[k] EXCEPT !.tree.kids =
                 SelectSeq(@, LAMBDA kid : kid.key # "nativeStack")]
        ELSE kept[k]]

\* the claim as it was made: the same writes altogether
C24_FormsEquivalent ==
    IsLog => CallEvents(last.call) = GenericEvents

\* the claim as amended
C24_FormsEquivalentButNativeStack ==
    IsLog =>
        /\ WithoutNativeStack(CallEvents(last.call)) = WithoutNativeStack(GenericEvents)
        /\ StreamsOf(CallEvents(last.call)) = StreamsOf(GenericEvents)
        /\ FormLevel \in {"debug", "info", "warn"} => CallEvents(last.call) = GenericEvents

\* logger.error(e1) in text mode: the lines of logger.log("error", e1) and two
\* more frames in the native stack
C24_Witness ==
    /\ IsLog /\ last.via = "logger" /\ last.method = "error"
    /\ logger.outputFormat = "text" /\ last.message = ErrVal("e1")
    /\ CallEvents(last.call) # GenericEvents
    /\ Len(CallEvents(last.call)) = Len(GenericEvents) + 2
    /\ CallEvents(last.call)[Len(GenericEvents)].text = <<"  ", "    at logError">>

----------------------------------------------------------------------------
(* C26  In stringifyJsonRecord, at every call of the replacer on an object *)
(* or array value that is no Error, the ancestor list after the pop loop   *)
(* is the chain of the containers from the record down to the holder of    *)
(* the value; also for the values visited after an Error whose serialized  *)
(* form has a causes array, and for its siblings.                          *)

\* the replacer calls of the last log call on object and array values: the
\* ancestor list after the pop loop, the containers open around the value
ReplacerCalls == IF IsLog THEN last.inv ELSE <<>>

C26_AncestorsAreTheChain ==
    \A k \in DOMAIN ReplacerCalls : ReplacerCalls[k].anc = ReplacerCalls[k].chain

IsSuffix(part, seq) ==
    /\ Len(part) <= Len(seq)
    /\ SubSeq(seq, Len(seq) - Len(part) + 1, Len(seq)) = part

\* what does hold: the ancestor list is the end of the chain, down to the
\* holder, and can have lost the containers at its beginning
C26_AncestorsAreEndOfChain ==
    \A k \in DOMAIN ReplacerCalls : IsSuffix(ReplacerCalls[k].anc, ReplacerCalls[k].chain)

----------------------------------------------------------------------------
(* C27  stringifyJsonRecord replaces a value by "[Circular]" only when the *)
(* value is identical to one of the containers open around it.  A          *)
(* container that comes again in a sibling or cousin subtree, at any       *)
(* depth, with Error values in the graph or without, is not replaced: in   *)
(* a line that is written, the "[Circular]" strings are exactly at the     *)
(* places where a container encloses itself.                               *)

\* the replacer answers "[Circular]" when the value is in the ancestor list
AnsweredCircular(c) == \E i \in DOMAIN c.anc : c.anc[i] = c.value

EnclosesItself(c) == \E i \in DOMAIN c.chain : c.chain[i] = c.value

RECURSIVE CircularCount(_)
RECURSIVE CircularCountOfKids(_, _)
\* how many "[Circular]" strings a written tree holds
CircularCount(tree) ==
    (IF tree.tok = <<"str", "[Circular]">> THEN 1 ELSE 0)
    + CircularCountOfKids(tree.kids, 1)

CircularCountOfKids(kids, i) ==
    IF i > Len(kids) THEN 0
    ELSE CircularCount(kids[i]) + CircularCountOfKids(kids, i + 1)

C27_CircularOnlyForAncestors ==
    /\ \A k \in DOMAIN ReplacerCalls :
          AnsweredCircular(ReplacerCalls[k]) => EnclosesItself(ReplacerCalls[k])
    /\ JsonLineWritten =>
          CircularCount(LastRecord)
              = Cardinality({k \in DOMAIN ReplacerCalls : EnclosesItself(ReplacerCalls[k])})

\* o1 = [e1, o2] is passed twice, so o2 comes again in a cousin subtree, after
\* an Error with a causes array: no "[Circular]" in the line
C27_Witness ==
    /\ JsonLineWritten
    /\ heap.kids["o1"] = <<ErrVal("e1"), ObjVal("o2")>> /\ heap.kids["o2"] = <<>>
    /\ last.message = ErrVal("e1") /\ last.args = <<ObjVal("o1"), ObjVal("o1")>>
    /\ CircularCount(LastRecord) = 0
    /\ KidByKey(LastRecord, "args").kids[2].kids[2].tok = <<"{">>

----------------------------------------------------------------------------
(* C28  In text mode a Timer hands the Logger a string as message: the     *)
(* tag, a space and the message text.  So when an error or fatal call      *)
(* through a Timer has an Error as message, that Error adds no "Caused     *)
(* by:" line and no line of its own stack; the cause and stack lines of    *)
(* the call are those of the Error values among the args.  The same call   *)
(* made directly on the Logger writes the lines of the message Error too.  *)

CauseAndStackLines(events) ==
    LET ls == SelectSeq(events, LAMBDA ev : ev.kind \in {"cause", "stack"}) IN
    [k \in DOMAIN ls |-> Line(ls[k].kind, ls[k].text)]

ErrorArgs == SelectSeq(last.args, LAMBDA v : v.t = "err")

C28_TimerMessageErrorAddsNoLines ==
    (TextErrorCall /\ last.via = "timer") =>
        /\ CallLines(last.call)[1].text[1] = "["
        /\ CauseAndStackLines(CallLines(last.call)) = LinesOfErrors(ErrorArgs, 1)
        /\ last.message.t = "err" =>
              CauseAndStackLines(DirectEvents)
                  = LinesOfError(last.message.id) \o LinesOfErrors(ErrorArgs, 1)

\* timer.error(e1, e2): the three lines of e2; logger.error(e1, e2) writes the
\* four lines of e1 before them
C28_Witness ==
    /\ TextErrorCall /\ last.via = "timer"
    /\ last.message = ErrVal("e1") /\ last.args = <<ErrVal("e2")>>
    /\ Len(LinesOfError("e1")) = 4
    /\ Len(CauseAndStackLines(CallLines(last.call))) = 3
    /\ Len(CauseAndStackLines(DirectEvents)) = 7

----------------------------------------------------------------------------
(* C29  Once the logger is constructed no step changes its output format,  *)
(* its split-stream flag or its stream handles.  A log call, passing or    *)
(* filtered, direct or through a Timer, and the creation of a timer change *)
(* nothing of the logger.  The minimum level changes in a setLogLevel step *)
(* only, which changes nothing else; the module label and its color change *)
(* in a setModule step only, which changes nothing else.                   *)

FixedFields(lg) ==
    <<lg.exists, lg.outputFormat, lg.jsonlSplitStreams, lg.stdout, lg.stderr>>

C29_LoggerFrame ==
    [][logger.exists =>
         /\ FixedFields(logger') = FixedFields(logger)
         /\ (calls' # calls \/ timers' # timers \/ out' # out) => logger' = logger
         /\ logger'.logLevel # logger.logLevel =>
               /\ last'.op = "setLogLevel"
               /\ logger' = [logger EXCEPT !.logLevel = last'.level]
               /\ out' = out /\ timers' = timers
         /\ (logger'.module # logger.module \/ logger'.moduleColor # logger.moduleColor) =>
               /\ last'.op = "setModule"
               /\ logger'.logLevel = logger.logLevel
               /\ out' = out /\ timers' = timers]_vars

\* a logger whose level and label were set, then a timer, then a filtered call
\* through it: the logger is as the setters left it
C29_Witness ==
    /\ IsLog /\ last.via = "timer" /\ ~PassingLog
    /\ logger.logLevel = "fatal" /\ last.level = "error"
    /\ logger.module = "api" /\ logger.moduleColor = <<"color of", "api">>
    /\ logger.outputFormat = "jsonl" /\ logger.jsonlSplitStreams
    /\ logger.stdout = "stdout" /\ logger.stderr = "stderr"
    /\ out = <<>>

----------------------------------------------------------------------------
(* C30  A log call performs all its writes before it returns: a step that  *)
(* writes is one log call, it appends the lines of that call and of no     *)
(* other, and leaves what was written as it is.  So on each stream the     *)
(* lines are in call order and the lines of two calls never interleave,    *)
(* in any sequence of Logger and Timer calls.                              *)

CallsOn(stream) ==
    LET ls == SelectSeq(out, LAMBDA ev : ev.stream = stream) IN
    [k \in DOMAIN ls |-> ls[k].call]

NonDecreasing(seq) == \A i, j \in DOMAIN seq : i < j => seq[i] <= seq[j]

C30_StreamsInCallOrder ==
    \A stream \in {"stdout", "stderr"} : NonDecreasing(CallsOn(stream))

C30_WritesWithinTheCall ==
    [][/\ Len(out') >= Len(out)
       /\ SubSeq(out', 1, Len(out)) = out
       /\ out' # out =>
             /\ calls' = calls + 1
             /\ \A k \in (Len(out) + 1)..Len(out') : out'[k].call = calls']_vars

C30_CallOrder == []C30_StreamsInCallOrder /\ C30_WritesWithinTheCall

\* logger.error(e1) and then timer.error("hello"), both on stderr: the eight
\* lines of the first call, then the four of the second
C30_Witness ==
    /\ logger.outputFormat = "text" /\ calls = 2
    /\ last.via = "timer"
    /\ out[1].text = <<"boom">>
    /\ CallsOn("stderr") = <<1, 1, 1, 1, 1, 1, 1, 1, 2, 2, 2, 2>>
    /\ CallsOn("stdout") = <<>>

====
